---- MODULE Spec2Model ----
(***************************************************************************)
(* Model of reedline's input-interpretation core: the recursive keybinding *)
(* table (edit_mode/keybindings.rs), the PartialKeySequence matcher, and   *)
(* the Emacs, Vi and Helix mode drivers.                                   *)
(*                                                                         *)
(* Values.  Option<T> is a sequence of length 0 (None) or 1 (Some).        *)
(* A KeyCombination is a record [modifier, key_code]; a key code is a      *)
(* record [kind, c] with kind "Char" for KeyCode::Char(c).  A              *)
(* ReedlineEvent, an EditCommand and a KeyNode are tuples whose first      *)
(* element is the variant's name.  A Sequence (HashMap<KeyCombination,     *)
(* KeyNode>) is a function whose domain is the set of bound keys.          *)
(***************************************************************************)
EXTENDS Integers, Sequences, FiniteSets, TLC

VARIABLES
    kb,         \* Keybindings.bindings of the table being built (a Sequence)
    panicked,   \* an add_binding call hit its assert!
    last,       \* Option: the latest add_binding call [start, rest, command, before]
    pks,        \* Option<PartialKeySequence> of the bare matcher
    results,    \* what the matcher's advance calls returned since new()
    emacs,      \* Option<Emacs>: the Emacs driver
    vi,         \* Option<Vi>: the Vi driver
    helix,      \* Option<Helix>: the Helix driver
    line_buffer,\* Option<LineBuffer>: the buffer the Helix driver is shown
    presses     \* the parse_event calls so far: [key, ret, before]

vars == <<kb, panicked, last, pks, results, emacs, vi, helix, line_buffer, presses>>
kbVars == <<kb, panicked, last, pks, results>>

(***************************************************************************)
(* Option, maps                                                            *)
(***************************************************************************)
None == <<>>
Some(v) == <<v>>
IsSome(o) == o # <<>>
Unwrap(o) == o[1]

EmptyMap == [k \in {} |-> k]
MapRemove(m, k) == [x \in (DOMAIN m) \ {k} |-> m[x]]
MapGet(m, k) == IF k \in DOMAIN m THEN Some(m[k]) ELSE None

(***************************************************************************)
(* Keys and events                                                         *)
(***************************************************************************)
Char(c) == [kind |-> "Char", c |-> c]
Code(kind) == [kind |-> kind, c |-> ""]
KeyCombination(modifier, key_code) == [modifier |-> modifier, key_code |-> key_code]
Plain(c) == KeyCombination("NONE", Char(c))

EvNone == <<"None">>
ClearScreen == <<"ClearScreen">>
UntilFound(alts) == <<"UntilFound", alts>>
Edit(cmds) == <<"Edit", cmds>>
Multiple(evs) == <<"Multiple", evs>>
InsertChar(c) == <<"InsertChar", c>>

Event(e) == <<"Event", e>>
Sequence(m) == <<"Sequence", m>>
IsEvent(node) == node[1] = "Event"
IsSequence(node) == node[1] = "Sequence"

(***************************************************************************)
(* keybindings.rs: KeyNode                                                 *)
(***************************************************************************)
\* KeyNode::new: wrap the event in one Sequence per key, last key first.
RECURSIVE KeyNodeNewFrom(_, _)
KeyNodeNewFrom(prev, key_combinations) ==
    IF key_combinations = <<>> THEN prev
    ELSE LET n == Len(key_combinations)
         IN  KeyNodeNewFrom(Sequence(key_combinations[n] :> prev),
                            SubSeq(key_combinations, 1, n - 1))

KeyNodeNew(key_combinations, command) ==
    KeyNodeNewFrom(Event(command), key_combinations)

\* A plausible slip in merge: the (Sequence, Sequence) arm replaces instead
\* of merging the subtrees of a shared key.
RECURSIVE MergeNoRecurse(_, _)
MergeNoRecurse(self, other) ==
    IF IsSequence(self) /\ IsSequence(other)
    THEN LET s == self[2]
             o == other[2]
         IN  Sequence([k \in (DOMAIN s) \cup (DOMAIN o) |->
                          IF k \in DOMAIN o THEN o[k] ELSE s[k]])
    ELSE other

\* A plausible slip in merge: a leaf on the new side does not win.
RECURSIVE MergeKeepOld(_, _)
MergeKeepOld(self, other) ==
    IF IsSequence(self) /\ IsSequence(other)
    THEN LET s == self[2]
             o == other[2]
         IN  Sequence([k \in (DOMAIN s) \cup (DOMAIN o) |->
                          IF k \in DOMAIN s /\ k \in DOMAIN o
                          THEN MergeKeepOld(s[k], o[k])
                          ELSE IF k \in DOMAIN s THEN s[k] ELSE o[k]])
    ELSE self

\* KeyNode::merge.  For every key of self that other also holds the two
\* subtrees are merged; the keys only other holds are added; when either
\* side is a leaf, other replaces self.
RECURSIVE KeyNodeMerge(_, _)
KeyNodeMerge(self, other) ==
    IF IsSequence(self) /\ IsSequence(other)
    THEN LET s == self[2]
             o == other[2]
         IN  Sequence([k \in (DOMAIN s) \cup (DOMAIN o) |->
                          IF k \in DOMAIN s /\ k \in DOMAIN o
                          THEN KeyNodeMerge(s[k], o[k])
                          ELSE IF k \in DOMAIN s THEN s[k] ELSE o[k]])
    ELSE other

(***************************************************************************)
(* keybindings.rs: Keybindings                                             *)
(***************************************************************************)
KeybindingsNew == EmptyMap

\* A plausible slip: the emptiness check is missing.
AddBindingPanicsNever(command) == FALSE

\* The assert! of add_binding.
AddBindingPanics(command) == command[1] = "UntilFound" /\ command[2] = <<>>

\* add_binding on a table whose assert! passed.
AddBinding(bindings, start_key_combination, key_combinations, command) ==
    LET key_node == KeyNodeNew(key_combinations, command)
    IN  IF start_key_combination \in DOMAIN bindings
        THEN [bindings EXCEPT ![start_key_combination] = KeyNodeMerge(@, key_node)]
        ELSE (start_key_combination :> key_node) @@ bindings

\* A plausible slip in find_binding: the modifier is left out of the lookup.
FindBindingNoModifier(bindings, modifier, key_code) ==
    MapGet(bindings, KeyCombination("NONE", key_code))

\* find_binding: the node bound to one key at the root.
FindBinding(bindings, modifier, key_code) ==
    MapGet(bindings, KeyCombination(modifier, key_code))

LowerLetters == <<"a", "b", "c", "d", "e", "f", "g", "h", "i", "j", "k", "l", "m",
                  "n", "o", "p", "q", "r", "s", "t", "u", "v", "w", "x", "y", "z">>
UpperLetters == <<"A", "B", "C", "D", "E", "F", "G", "H", "I", "J", "K", "L", "M",
                  "N", "O", "P", "Q", "R", "S", "T", "U", "V", "W", "X", "Y", "Z">>
IsAsciiUppercase(c) == \E i \in 1..26 : UpperLetters[i] = c
IsAsciiLowercase(c) == \E i \in 1..26 : LowerLetters[i] = c

\* char::to_ascii_lowercase and char::to_ascii_uppercase.
ToAsciiLowercase(c) ==
    IF IsAsciiUppercase(c)
    THEN LowerLetters[CHOOSE i \in 1..26 : UpperLetters[i] = c] ELSE c
ToAsciiUppercase(c) ==
    IF IsAsciiLowercase(c)
    THEN UpperLetters[CHOOSE i \in 1..26 : LowerLetters[i] = c] ELSE c

\* to_lowercase_key_code.
ToLowercaseKeyCode(key_code) ==
    IF key_code.kind = "Char" THEN Char(ToAsciiLowercase(key_code.c)) ELSE key_code

\* The node a key path leads to from a Sequence, None when it leaves the tree.
RECURSIVE Walk(_, _)
Walk(map, path) ==
    IF path = <<>> THEN Some(Sequence(map))
    ELSE IF Head(path) \notin DOMAIN map THEN None
    ELSE LET node == map[Head(path)]
         IN  IF Len(path) = 1 THEN Some(node)
             ELSE IF IsSequence(node) THEN Walk(node[2], Tail(path))
             ELSE None

\* path resolves to the terminal event e.
Resolves(map, path, e) == Walk(map, path) = Some(Event(e))

(***************************************************************************)
(* keybindings.rs: PartialKeySequence                                      *)
(***************************************************************************)
Pending == <<"Pending">>
Matched(e) == <<"Matched", e>>
Cancelled(keys) == <<"Cancelled", keys>>

PartialKeySequenceNew(sequence) == [sequence |-> sequence, history |-> <<>>]

\* A plausible slip in advance: the cursor is not moved to the nested subtree.
AdvanceKeepCursor(p, kc) ==
    LET history == Append(p.history, kc)
        found == MapGet(p.sequence, kc)
    IN  IF found = None
        THEN [pks |-> [sequence |-> p.sequence, history |-> <<>>],
              result |-> Cancelled(history)]
        ELSE IF IsEvent(Unwrap(found))
        THEN [pks |-> [sequence |-> MapRemove(p.sequence, kc), history |-> history],
              result |-> Matched(Unwrap(found)[2])]
        ELSE [pks |-> [sequence |-> MapRemove(p.sequence, kc), history |-> history],
              result |-> Pending]

\* PartialKeySequence::advance: the matcher afterwards and the result.
Advance(p, kc) ==
    LET history == Append(p.history, kc)
        found == MapGet(p.sequence, kc)
    IN  IF found = None
        THEN [pks |-> [sequence |-> p.sequence, history |-> <<>>],
              result |-> Cancelled(history)]
        ELSE IF IsEvent(Unwrap(found))
        THEN [pks |-> [sequence |-> MapRemove(p.sequence, kc), history |-> history],
              result |-> Matched(Unwrap(found)[2])]
        ELSE [pks |-> [sequence |-> Unwrap(found)[2], history |-> history],
              result |-> Pending]

(***************************************************************************)
(* Building a table and walking it with the bare matcher                   *)
(***************************************************************************)
MaxBindings == 2      \* add_binding calls per table
MaxRest == 2          \* keys of a path after its first key
MaxAdvance == 3       \* advance calls per matcher

KbKeys == {Plain("a"), Plain("b"), Plain("c")}
KbStarts == {Plain("a")}
KbRestKeys == {Plain("b"), Plain("c")}
EventX == ClearScreen
EventY == UntilFound(<<<<"MenuUp">>, <<"Up">>>>)
KbEvents == {EventX, EventY, UntilFound(<<>>)}

RECURSIVE SeqsUpTo(_, _)
SeqsUpTo(S, n) ==
    IF n = 0 THEN {<<>>}
    ELSE LET shorter == SeqsUpTo(S, n - 1)
         IN  shorter \cup {Append(s, x) : s \in shorter, x \in S}

KbRests == SeqsUpTo(KbRestKeys, MaxRest)

Calls(l) == IF IsSome(l) THEN Unwrap(l).n ELSE 0
PathOf(call) == <<call.start>> \o call.rest

InitKb ==
    /\ kb = KeybindingsNew
    /\ panicked = FALSE
    /\ last = None
    /\ pks = None
    /\ results = <<>>
    /\ emacs = None
    /\ vi = None
    /\ helix = None
    /\ line_buffer = None
    /\ presses = <<>>

DoAddBinding(start, rest, command) ==
    /\ ~panicked
    /\ pks = None
    /\ Calls(last) < MaxBindings
    /\ IF AddBindingPanics(command)
       THEN /\ panicked' = TRUE
            /\ kb' = kb
       ELSE /\ panicked' = FALSE
            /\ kb' = AddBinding(kb, start, rest, command)
    /\ last' = Some([start |-> start, rest |-> rest, command |-> command,
                     before |-> kb, prev |-> IF IsSome(last)
                                             THEN Some([path |-> PathOf(Unwrap(last)),
                                                        command |-> Unwrap(last).command])
                                             ELSE None,
                     n |-> Calls(last) + 1])
    /\ UNCHANGED <<pks, results, emacs, vi, helix, line_buffer, presses>>

DoNewMatcher ==
    /\ ~panicked
    /\ pks = None
    /\ pks' = Some(PartialKeySequenceNew(kb))
    /\ results' = <<>>
    /\ last' = None
    /\ UNCHANGED <<kb, panicked, emacs, vi, helix, line_buffer, presses>>

DoAdvance(kc) ==
    /\ IsSome(pks)
    /\ Len(results) < MaxAdvance
    /\ IF results = <<>> THEN TRUE ELSE results[Len(results)].result = Pending
    /\ LET r == Advance(Unwrap(pks), kc)
       IN  /\ pks' = Some(r.pks)
           /\ results' = Append(results, [key |-> kc, result |-> r.result])
    /\ UNCHANGED <<kb, panicked, last, emacs, vi, helix, line_buffer, presses>>

NextKb ==
    \/ \E start \in KbStarts, rest \in KbRests, command \in KbEvents :
          DoAddBinding(start, rest, command)
    \/ DoNewMatcher
    \/ \E kc \in KbKeys : DoAdvance(kc)

SpecKb == InitKb /\ [][NextKb]_vars

(***************************************************************************)
(* Properties of the table and the matcher (SpecKb)                        *)
(***************************************************************************)
IsPrefix(p, q) == Len(p) <= Len(q) /\ SubSeq(q, 1, Len(p)) = p
Comparable(p, q) == IsPrefix(p, q) \/ IsPrefix(q, p)
KbPaths == SeqsUpTo(KbKeys, MaxRest + 1) \ {<<>>}
LastCall == Unwrap(last)
ResultKeys == [i \in 1..Len(results) |-> results[i].key]

\* C2: a matcher started at the table root and advanced along a path of
\* n >= 2 keys that the table resolves to an event reports Pending for each
\* of the first n-1 keys and Matched with that event on the n-th.
C2_PendingThenMatched ==
    IsSome(pks) =>
        \A n \in 2..Len(results) : \A e \in KbEvents :
            Resolves(kb, SubSeq(ResultKeys, 1, n), e) =>
                /\ \A i \in 1..(n - 1) : results[i].result = Pending
                /\ results[n].result = Matched(e)

C2_Witness ==
    /\ IsSome(pks)
    /\ Len(results) >= 2
    /\ \E e \in KbEvents : Resolves(kb, ResultKeys, e)
    /\ results[1].result = Pending
    /\ results[Len(results)].result[1] = "Matched"

\* C5: after two consecutive registrations under paths that share their first
\* key and of which neither is a prefix of the other (a b -> X, then a c -> Y,
\* in either order), both paths resolve to their events.
C5_BothLeavesResolve ==
    (IsSome(last) /\ ~panicked /\ IsSome(LastCall.prev)) =>
        LET p1 == Unwrap(LastCall.prev).path
            p2 == PathOf(LastCall)
        IN  (p1[1] = p2[1] /\ ~Comparable(p1, p2)) =>
                /\ Resolves(kb, p1, Unwrap(LastCall.prev).command)
                /\ Resolves(kb, p2, LastCall.command)

C5_Witness ==
    /\ IsSome(last) /\ ~panicked /\ IsSome(LastCall.prev)
    /\ Unwrap(LastCall.prev).path = <<Plain("a"), Plain("b")>>
    /\ Unwrap(LastCall.prev).command = EventX
    /\ PathOf(LastCall) = <<Plain("a"), Plain("c")>>
    /\ LastCall.command = EventY
    /\ Resolves(kb, <<Plain("a"), Plain("b")>>, EventX)
    /\ Resolves(kb, <<Plain("a"), Plain("c")>>, EventY)

\* C6 as stated: every path that resolved to an event before an add_binding
\* call resolves to the same event after it, unless it is the call's path.
C6_Original ==
    IsSome(last) =>
        \A q \in KbPaths : \A e \in KbEvents :
            (Resolves(LastCall.before, q, e) /\ q # PathOf(LastCall)) =>
                Resolves(kb, q, e)

\* C6 amended: every path that resolved to an event before an add_binding
\* call resolves to the same event after it, unless it is the call's path, a
\* prefix of it, or an extension of it.
C6_LeavesPreserved ==
    IsSome(last) =>
        \A q \in KbPaths : \A e \in KbEvents :
            (Resolves(LastCall.before, q, e) /\ ~Comparable(q, PathOf(LastCall))) =>
                Resolves(kb, q, e)

C6_Witness ==
    /\ IsSome(last) /\ ~panicked
    /\ \E q \in KbPaths :
          /\ q[1] = LastCall.start
          /\ ~Comparable(q, PathOf(LastCall))
          /\ Resolves(LastCall.before, q, EventX)
          /\ Resolves(kb, q, EventX)

\* C7: add_binding panics exactly when its event is an UntilFound with no
\* alternatives, whatever the path, and leaves the table as it was.
C7_EmptyUntilFoundPanics ==
    IsSome(last) =>
        /\ panicked <=> (LastCall.command[1] = "UntilFound"
                           /\ Len(LastCall.command[2]) = 0)
        /\ panicked => kb = LastCall.before

C7_Witness ==
    /\ IsSome(last) /\ panicked
    /\ LastCall.rest # <<>>
    /\ LastCall.before # KeybindingsNew
    /\ kb = LastCall.before

\* C8: registering a path that already resolves to an event makes it resolve
\* to the newly registered event.
C8_LastRegistrationWins ==
    (IsSome(last) /\ ~panicked) =>
        ((\E e \in KbEvents : Resolves(LastCall.before, PathOf(LastCall), e)) =>
            Resolves(kb, PathOf(LastCall), LastCall.command))

C8_Witness ==
    /\ IsSome(last) /\ ~panicked
    /\ Resolves(LastCall.before, PathOf(LastCall), EventX)
    /\ LastCall.command = EventY
    /\ Resolves(kb, PathOf(LastCall), EventY)

(***************************************************************************)
(* Raw input events and what all drivers share                             *)
(***************************************************************************)
MaxKeys == 3          \* parse_event calls per driver

Key(kc) == <<"Key", kc>>
Mouse == <<"Mouse">>
Resize(w, h) == <<"Resize", w, h>>
FocusGained == <<"FocusGained">>
FocusLost == <<"FocusLost">>
Paste(body) == <<"Paste", body>>

InsertString(str) == <<"InsertString", str>>
Panic == <<"Panic">>       \* parse_event did not return: unreachable! was hit

\* A pasted text is a sequence of characters; carriage return and line feed
\* are written "CR" and "LF".
\* str::replace of CR LF by LF, left to right over the characters.
RECURSIVE ReplaceCrLf(_)
ReplaceCrLf(body) ==
    IF body = <<>> THEN <<>>
    ELSE IF Len(body) >= 2 /\ body[1] = "CR" /\ body[2] = "LF"
    THEN <<"LF">> \o ReplaceCrLf(SubSeq(body, 3, Len(body)))
    ELSE <<body[1]>> \o ReplaceCrLf(Tail(body))

\* A plausible slip: the lone carriage returns are left in the text.
ReplaceCrKept(body) == body

\* str::replace of CR by LF.
ReplaceCr(body) == [i \in 1..Len(body) |-> IF body[i] = "CR" THEN "LF" ELSE body[i]]

\* The arms of parse_event for the events that are not key presses.
ParseOtherEvent(event) ==
    CASE event[1] = "Mouse" -> <<"Mouse">>
      [] event[1] = "Resize" -> <<"Resize", event[2], event[3]>>
      [] event[1] = "FocusGained" -> EvNone
      [] event[1] = "FocusLost" -> EvNone
      [] event[1] = "Paste" -> Edit(<<InsertString(ReplaceCr(ReplaceCrLf(event[2])))>>)

\* A plausible slip: an unbound character is typed under every modifier.
TypingModifierAny(modifier) == TRUE

\* The modifier sets under which an unbound character is typed.
TypingModifier(modifier) ==
    modifier \in {"NONE", "SHIFT", "CONTROL|ALT", "CONTROL|ALT|SHIFT"}

\* A table built by a list of add_binding calls, none of which panics.
Binding(path, command) == [start |-> Head(path), rest |-> Tail(path), command |-> command]
RECURSIVE BuildKb(_)
BuildKb(bs) ==
    IF bs = <<>> THEN KeybindingsNew
    ELSE LET b == bs[Len(bs)]
         IN  AddBinding(BuildKb(SubSeq(bs, 1, Len(bs) - 1)), b.start, b.rest, b.command)

Shift(c) == KeyCombination("SHIFT", Char(c))
Ctrl(c) == KeyCombination("CONTROL", Char(c))
Alt(c) == KeyCombination("ALT", Char(c))
KeyUp == KeyCombination("NONE", Code("Up"))
KeyEsc == KeyCombination("NONE", Code("Esc"))
KeyEnter == KeyCombination("NONE", Code("Enter"))
CtrlD == <<"CtrlD">>
HistoryHintComplete == <<"HistoryHintComplete">>
MenuUpOrUp == UntilFound(<<<<"MenuUp">>, <<"Up">>>>)

Returned(i) == presses[i].ret
PressedKey(i) == presses[i].event[2]
IsKeyPress(i) == presses[i].event[1] = "Key"
NoPanic == \A i \in 1..Len(presses) : Returned(i) # Panic

(***************************************************************************)
(* emacs.rs                                                                *)
(***************************************************************************)
EmacsNew(keybindings) ==
    [keybindings |-> keybindings, partial_key_sequence |-> None]

\* The character pushed onto the history of the pending sequence.
EmacsHistoryChar(modifier, c) ==
    IF modifier = "SHIFT" THEN ToAsciiUppercase(c) ELSE c

\* A plausible slip: the subtree is moved out of the table, not cloned.
EmacsRootSequenceMoved(self, modifier, key_code, sequence) ==
    [self EXCEPT !.keybindings = MapRemove(@, KeyCombination(modifier, key_code)),
                 !.partial_key_sequence =
                     Some([sequence |-> sequence,
                           history |-> IF key_code.kind = "Char"
                                       THEN <<EmacsHistoryChar(modifier, key_code.c)>>
                                       ELSE <<>>])]

\* Emacs::handle_binding, root arm, a Sequence found: keep it pending.
EmacsRootSequence(self, modifier, key_code, sequence) ==
    [self EXCEPT !.partial_key_sequence =
        Some([sequence |-> sequence,
              history |-> IF key_code.kind = "Char"
                          THEN <<EmacsHistoryChar(modifier, key_code.c)>>
                          ELSE <<>>])]

\* Emacs::handle_binding: the driver afterwards and the Option<ReedlineEvent>.
EmacsHandleBinding(self, modifier, key_code) ==
    IF self.partial_key_sequence = None
    THEN LET found == FindBinding(self.keybindings, modifier, key_code)
         IN  IF found = None THEN [self |-> self, ret |-> None]
             ELSE IF IsSequence(Unwrap(found))
             THEN [self |-> EmacsRootSequence(self, modifier, key_code, Unwrap(found)[2]),
                   ret |-> Some(EvNone)]
             ELSE [self |-> self, ret |-> Some(Unwrap(found)[2])]
    ELSE LET partial == Unwrap(self.partial_key_sequence)
             taken == [self EXCEPT !.partial_key_sequence = None]
             history == IF key_code.kind = "Char"
                        THEN Append(partial.history, EmacsHistoryChar(modifier, key_code.c))
                        ELSE partial.history
             found == MapGet(partial.sequence, KeyCombination(modifier, key_code))
         IN  IF found = None
             THEN [self |-> taken,
                   ret |-> Some(Edit([i \in 1..Len(history) |-> InsertChar(history[i])]))]
             ELSE IF IsEvent(Unwrap(found))
             THEN [self |-> taken, ret |-> Some(Unwrap(found)[2])]
             ELSE [self |-> [self EXCEPT !.partial_key_sequence =
                                Some([sequence |-> Unwrap(found)[2], history |-> history])],
                   ret |-> Some(EvNone)]

\* Emacs::parse_event: the driver afterwards and the returned event.
EmacsParseEvent(self, event) ==
    IF event[1] # "Key" THEN [self |-> self, ret |-> ParseOtherEvent(event)]
    ELSE LET modifier == event[2].modifier
             code == event[2].key_code
         IN  IF code.kind = "Char"
             THEN LET c == IF modifier = "NONE" THEN code.c ELSE ToAsciiLowercase(code.c)
                      r == EmacsHandleBinding(self, modifier, Char(c))
                  IN  [self |-> r.self,
                       ret |-> IF IsSome(r.ret) THEN Unwrap(r.ret)
                               ELSE IF TypingModifier(modifier)
                               THEN Edit(<<InsertChar(IF modifier = "SHIFT"
                                                      THEN ToAsciiUppercase(c) ELSE c)>>)
                               ELSE EvNone]
             ELSE LET r == EmacsHandleBinding(self, modifier, code)
                  IN  [self |-> r.self,
                       ret |-> IF IsSome(r.ret) THEN Unwrap(r.ret) ELSE EvNone]

\* The tables the Emacs driver is built with.
EmacsTables ==
    { BuildKb(bs) : bs \in {
        <<>>,
        <<Binding(<<Plain("g"), Plain("g")>>, ClearScreen)>>,
        <<Binding(<<Plain("g"), Plain("g")>>, ClearScreen),
          Binding(<<Plain("x")>>, CtrlD)>>,
        <<Binding(<<Plain("g")>>, ClearScreen),
          Binding(<<KeyUp>>, MenuUpOrUp)>>,
        <<Binding(<<Plain("g"), Plain("x"), Plain("g")>>, CtrlD),
          Binding(<<Shift("G")>>, HistoryHintComplete)>>,
        <<Binding(<<Ctrl("g")>>, Edit(<<<<"Redo">>>>)),
          Binding(<<Shift("g")>>, CtrlD),
          Binding(<<KeyUp, Plain("g")>>, ClearScreen)>>,
        <<Binding(<<Ctrl("g"), Shift("g")>>, ClearScreen),
          Binding(<<Plain("G")>>, CtrlD)>> } }

\* A character outside ASCII is written by name: e with acute accent.
EmacsInputs ==
    { Key(k) : k \in {Plain("g"), Plain("x"), Plain("G"), Shift("G"), Shift("g"),
                      Ctrl("g"), Alt("x"), Shift("EACUTE"), KeyUp} }
      \cup {FocusLost}

InitEmacs ==
    /\ kb = KeybindingsNew /\ panicked = FALSE /\ last = None
    /\ pks = None /\ results = <<>>
    /\ \E t \in EmacsTables : emacs = Some(EmacsNew(t))
    /\ vi = None
    /\ helix = None
    /\ line_buffer = None
    /\ presses = <<>>

EmacsPress(event) ==
    /\ IsSome(emacs)
    /\ Len(presses) < MaxKeys
    /\ LET r == EmacsParseEvent(Unwrap(emacs), event)
       IN  /\ emacs' = Some(r.self)
           /\ presses' = Append(presses, [event |-> event, ret |-> r.ret,
                                          before |-> Unwrap(emacs)])
    /\ UNCHANGED <<kbVars, vi, helix, line_buffer>>

NextEmacs == \E event \in EmacsInputs : EmacsPress(event)

SpecEmacs == InitEmacs /\ [][NextEmacs]_vars

(***************************************************************************)
(* vi/command.rs                                                           *)
(***************************************************************************)
Cmd(name) == <<name>>
CmdChar(name, c) == <<name, c>>
OptEdit(cmd) == <<"Edit", cmd>>          \* ReedlineOption::Edit
OptEvent(ev) == <<"Event", ev>>          \* ReedlineOption::Event
OptIncomplete == <<"Incomplete">>        \* ReedlineOption::Incomplete
Repaint == <<"Repaint">>

\* The three quote characters are written by name: double quote, single
\* quote, backtick.
Quotes == {"DQUOTE", "SQUOTE", "BACKTICK"}
is_valid_change_inside_left(c) == c \in {"(", "[", "{", "<"} \cup Quotes
is_valid_change_inside_right(c) == c \in {")", "]", "}", ">"} \cup Quotes

\* A plausible slip in bracket_for: the counterpart is not resolved.
bracket_for_same(c) == c

bracket_for(c) ==
    CASE c = "(" -> ")" [] c = "[" -> "]" [] c = "{" -> "}" [] c = "<" -> ">"
      [] c = ")" -> "(" [] c = "]" -> "[" [] c = "}" -> "{" [] c = ">" -> "<"
      [] OTHER -> c

\* The commands of one character.
SimpleCommands ==
    [p |-> "PasteAfter", P |-> "PasteBefore", i |-> "EnterViInsert",
     a |-> "EnterViAppend", u |-> "Undo", x |-> "DeleteChar",
     s |-> "SubstituteCharWithInsert", C |-> "ChangeToLineEnd", D |-> "DeleteToEnd",
     I |-> "PrependToStart", A |-> "AppendToEnd", S |-> "RewriteCurrentLine"]

\* d or c followed by i: the delimiter of the text object decides.
InsideCommand(name, rest) ==
    IF rest # <<>> /\ rest[1] = "i"
    THEN IF Len(rest) >= 2
            /\ (is_valid_change_inside_left(rest[2]) \/ is_valid_change_inside_right(rest[2]))
         THEN [val |-> Some(CmdChar(name \o "Inside", rest[2])),
               rest |-> SubSeq(rest, 3, Len(rest))]
         ELSE [val |-> None, rest |-> SubSeq(rest, 3, Len(rest))]
    ELSE [val |-> Some(Cmd(name)), rest |-> rest]

\* parse_command: the command, if one starts the input, and the input left.
parse_command(input) ==
    IF input = <<>> THEN [val |-> None, rest |-> input]
    ELSE LET c == input[1]
             rest == Tail(input)
         IN  CASE c = "d" -> InsideCommand("Delete", rest)
               [] c = "c" -> InsideCommand("Change", rest)
               [] c = "r" -> IF rest = <<>>
                             THEN [val |-> Some(Cmd("Incomplete")), rest |-> rest]
                             ELSE [val |-> Some(CmdChar("ReplaceChar", rest[1])),
                                   rest |-> Tail(rest)]
               [] c = "?" -> [val |-> Some(Cmd("HistorySearch")), rest |-> rest]
               [] c = "~" -> [val |-> Some(Cmd("Switchcase")), rest |-> rest]
               [] c = "." -> [val |-> Some(Cmd("RepeatLastAction")), rest |-> rest]
               [] c \in DOMAIN SimpleCommands ->
                     [val |-> Some(Cmd(SimpleCommands[c])), rest |-> rest]
               [] OTHER -> [val |-> None, rest |-> input]

\* Command::whole_line_char.
whole_line_char(command) ==
    CASE command = Cmd("Delete") -> Some("d")
      [] command = Cmd("Change") -> Some("c")
      [] OTHER -> None

\* Command::requires_motion.
requires_motion(command) == command \in {Cmd("Delete"), Cmd("Change")}

\* The two cuts of a text object, given either delimiter of the pair.
InsideCuts(c) ==
    IF is_valid_change_inside_left(c)
    THEN <<OptEdit(<<"CutLeftBefore", c>>), OptEdit(<<"CutRightBefore", bracket_for(c)>>)>>
    ELSE IF is_valid_change_inside_right(c)
    THEN <<OptEdit(<<"CutLeftBefore", bracket_for(c)>>), OptEdit(<<"CutRightBefore", c>>)>>
    ELSE <<>>

\* Command::to_reedline.
CommandToReedline(command, vi_state) ==
    LET n == command[1]
    IN  CASE n = "EnterViInsert" -> <<OptEvent(Repaint)>>
          [] n = "EnterViAppend" -> <<OptEdit(<<"MoveRight", FALSE>>)>>
          [] n = "PasteAfter" -> <<OptEdit(<<"PasteCutBufferAfter">>)>>
          [] n = "PasteBefore" -> <<OptEdit(<<"PasteCutBufferBefore">>)>>
          [] n = "Undo" -> <<OptEdit(<<"Undo">>)>>
          [] n = "ChangeToLineEnd" -> <<OptEdit(<<"ClearToLineEnd">>)>>
          [] n = "DeleteToEnd" -> <<OptEdit(<<"CutToLineEnd">>)>>
          [] n = "AppendToEnd" -> <<OptEdit(<<"MoveToLineEnd", FALSE>>)>>
          [] n = "PrependToStart" -> <<OptEdit(<<"MoveToLineStart", FALSE>>)>>
          [] n = "RewriteCurrentLine" -> <<OptEdit(<<"CutCurrentLine">>)>>
          [] n = "DeleteChar" -> <<OptEdit(<<"CutChar">>)>>
          [] n = "ReplaceChar" -> <<OptEdit(<<"ReplaceChar", command[2]>>)>>
          [] n = "SubstituteCharWithInsert" -> <<OptEdit(<<"CutChar">>)>>
          [] n = "HistorySearch" -> <<OptEvent(<<"SearchHistory">>)>>
          [] n = "Switchcase" -> <<OptEdit(<<"SwitchcaseChar">>)>>
          [] n \in {"Delete", "Change"} -> <<OptEdit(<<"CutSelection">>)>>
          [] n = "Incomplete" -> <<OptIncomplete>>
          [] n = "RepeatLastAction" ->
                IF IsSome(vi_state.previous)
                THEN <<OptEvent(Unwrap(vi_state.previous))>> ELSE <<>>
          [] n \in {"ChangeInside", "DeleteInside"} -> InsideCuts(command[2])

\* A plausible slip: every search is recorded as inclusive.
CharSearchOfInclusive(motion) ==
    CASE motion[1] \in {"RightUntil", "RightBefore"} -> <<"ToRight", motion[2]>>
      [] motion[1] \in {"LeftUntil", "LeftBefore"} -> <<"ToLeft", motion[2]>>

\* The last-search slot a find/till motion records.
CharSearchOf(motion) ==
    CASE motion[1] = "RightUntil" -> <<"ToRight", motion[2]>>
      [] motion[1] = "RightBefore" -> <<"TillRight", motion[2]>>
      [] motion[1] = "LeftUntil" -> <<"ToLeft", motion[2]>>
      [] motion[1] = "LeftBefore" -> <<"TillLeft", motion[2]>>

\* ViCharSearch::reverse and ViCharSearch::to_cut.
CharSearchReverse(cs) ==
    CASE cs[1] = "ToRight" -> <<"ToLeft", cs[2]>>
      [] cs[1] = "ToLeft" -> <<"ToRight", cs[2]>>
      [] cs[1] = "TillRight" -> <<"TillLeft", cs[2]>>
      [] cs[1] = "TillLeft" -> <<"TillRight", cs[2]>>
CharSearchToCut(cs) ==
    CASE cs[1] = "ToRight" -> <<"CutRightUntil", cs[2]>>
      [] cs[1] = "TillRight" -> <<"CutRightBefore", cs[2]>>
      [] cs[1] = "ToLeft" -> <<"CutLeftUntil", cs[2]>>
      [] cs[1] = "TillLeft" -> <<"CutLeftBefore", cs[2]>>

\* A plausible slip: `dw` cuts the word only (what `de` does).
DeleteWithMotionWordOnly(motion, vi_state) ==
    CASE motion[1] \in {"NextWord", "NextWordEnd"} -> Some(<<OptEdit(<<"CutWordRight">>)>>)
      [] OTHER -> None

\* Command::to_reedline_with_motion, the arms of Delete (without the slot).
DeleteWithMotion(motion, vi_state) ==
    LET m == motion[1]
    IN  CASE m = "End" -> Some(<<OptEdit(<<"CutToLineEnd">>)>>)
          [] m = "Line" -> Some(<<OptEdit(<<"CutCurrentLine">>)>>)
          [] m = "NextWord" -> Some(<<OptEdit(<<"CutWordRightToNext">>)>>)
          [] m = "NextBigWord" -> Some(<<OptEdit(<<"CutBigWordRightToNext">>)>>)
          [] m = "NextWordEnd" -> Some(<<OptEdit(<<"CutWordRight">>)>>)
          [] m = "NextBigWordEnd" -> Some(<<OptEdit(<<"CutBigWordRight">>)>>)
          [] m = "PreviousWord" -> Some(<<OptEdit(<<"CutWordLeft">>)>>)
          [] m = "PreviousBigWord" -> Some(<<OptEdit(<<"CutBigWordLeft">>)>>)
          [] m = "RightUntil" -> Some(<<OptEdit(<<"CutRightUntil", motion[2]>>)>>)
          [] m = "RightBefore" -> Some(<<OptEdit(<<"CutRightBefore", motion[2]>>)>>)
          [] m = "LeftUntil" -> Some(<<OptEdit(<<"CutLeftUntil", motion[2]>>)>>)
          [] m = "LeftBefore" -> Some(<<OptEdit(<<"CutLeftBefore", motion[2]>>)>>)
          [] m = "Start" -> Some(<<OptEdit(<<"CutFromLineStart">>)>>)
          [] m = "Left" -> Some(<<OptEdit(<<"Backspace">>)>>)
          [] m = "Right" -> Some(<<OptEdit(<<"Delete">>)>>)
          [] m \in {"Up", "Down"} -> None
          [] m = "ReplayCharSearch" ->
                IF IsSome(vi_state.last_char_search)
                THEN Some(<<OptEdit(CharSearchToCut(Unwrap(vi_state.last_char_search)))>>)
                ELSE None
          [] m = "ReverseCharSearch" ->
                IF IsSome(vi_state.last_char_search)
                THEN Some(<<OptEdit(CharSearchToCut(
                               CharSearchReverse(Unwrap(vi_state.last_char_search))))>>)
                ELSE None

\* Command::to_reedline_with_motion, the arms of Change before the Repaint.
ChangeWithMotion(motion, vi_state) ==
    LET m == motion[1]
    IN  CASE m = "Line" -> Some(<<OptEdit(<<"MoveToLineStart", FALSE>>),
                                  OptEdit(<<"CutToLineEnd">>)>>)
          [] m = "NextWord" -> Some(<<OptEdit(<<"CutWordRight">>)>>)
          [] m = "NextBigWord" -> Some(<<OptEdit(<<"CutBigWordRight">>)>>)
          [] OTHER -> DeleteWithMotion(motion, vi_state)

\* Command::to_reedline_with_motion: the Vi state afterwards (the last-search
\* slot is written by the find/till arms) and the Option<Vec<ReedlineOption>>.
CommandToReedlineWithMotion(command, motion, vi_state) ==
    LET after == IF command[1] \in {"Delete", "Change"}
                    /\ motion[1] \in {"RightUntil", "RightBefore", "LeftUntil", "LeftBefore"}
                 THEN [vi_state EXCEPT !.last_char_search = Some(CharSearchOf(motion))]
                 ELSE vi_state
    IN  CASE command[1] = "Delete" ->
                [vi |-> after, ret |-> DeleteWithMotion(motion, vi_state)]
          [] command[1] = "Change" ->
                LET op == ChangeWithMotion(motion, vi_state)
                IN  [vi |-> after,
                     ret |-> IF IsSome(op)
                             THEN Some(Append(Unwrap(op), OptEvent(Repaint))) ELSE None]
          [] OTHER -> [vi |-> vi_state, ret |-> None]

(***************************************************************************)
(* vi/parser.rs and vi/motion.rs (not among the sources: modelled from the *)
(* grammar of the specification, count? command (count? motion)?)          *)
(***************************************************************************)
Digits == <<"1", "2", "3", "4", "5", "6", "7", "8", "9">>
IsDigit(c) == c = "0" \/ \E i \in 1..9 : Digits[i] = c
DigitValue(c) == IF c = "0" THEN 0 ELSE CHOOSE i \in 1..9 : Digits[i] = c

RECURSIVE ParseDigits(_, _)
ParseDigits(input, acc) ==
    IF input # <<>> /\ IsDigit(input[1])
    THEN ParseDigits(Tail(input), acc * 10 + DigitValue(input[1]))
    ELSE [val |-> Some(acc), rest |-> input]

\* parse_number: a count does not start with 0 (0 is the line-start motion).
parse_number(input) ==
    IF input # <<>> /\ IsDigit(input[1]) /\ input[1] # "0"
    THEN ParseDigits(input, 0)
    ELSE [val |-> None, rest |-> input]

Valid(m) == <<"Valid", m>>
Incomplete == <<"Incomplete">>
Invalid == <<"Invalid">>
Motion(name) == <<name>>

SimpleMotions ==
    [h |-> "Left", l |-> "Right", j |-> "Down", k |-> "Up", b |-> "PreviousWord",
     B |-> "PreviousBigWord", w |-> "NextWord", W |-> "NextBigWord",
     e |-> "NextWordEnd", E |-> "NextBigWordEnd"]
CharMotions ==
    [f |-> "RightUntil", t |-> "RightBefore", F |-> "LeftUntil", T |-> "LeftBefore"]

\* parse_motion: the motion at the head of the input.
parse_motion(input, command_char) ==
    IF input = <<>> THEN [res |-> Incomplete, rest |-> input]
    ELSE LET c == input[1]
             rest == Tail(input)
         IN  CASE c \in DOMAIN SimpleMotions ->
                     [res |-> Valid(Motion(SimpleMotions[c])), rest |-> rest]
               [] c \in {"0", "^"} -> [res |-> Valid(Motion("Start")), rest |-> rest]
               [] c = "$" -> [res |-> Valid(Motion("End")), rest |-> rest]
               [] c \in DOMAIN CharMotions ->
                     IF rest = <<>> THEN [res |-> Incomplete, rest |-> rest]
                     ELSE [res |-> Valid(<<CharMotions[c], rest[1]>>), rest |-> Tail(rest)]
               [] c = ";" -> [res |-> Valid(Motion("ReplayCharSearch")), rest |-> rest]
               [] c = "," -> [res |-> Valid(Motion("ReverseCharSearch")), rest |-> rest]
               [] command_char = Some(c) -> [res |-> Valid(Motion("Line")), rest |-> rest]
               [] OTHER -> [res |-> Invalid, rest |-> input]

\* parse: multiplier, command, count, motion, in this order.
parse(input) ==
    LET multiplier == parse_number(input)
        command == parse_command(multiplier.rest)
        count == parse_number(command.rest)
        motion == parse_motion(count.rest,
                               IF IsSome(command.val)
                               THEN whole_line_char(Unwrap(command.val)) ELSE None)
    IN  [multiplier |-> multiplier.val, command |-> command.val,
         count |-> count.val, motion |-> motion.res]

\* ParsedViSequence::is_valid.
is_valid(res) == res.motion # Invalid

\* ParsedViSequence::is_complete.
is_complete(res, mode) ==
    IF res.command = None THEN res.motion[1] = "Valid"
    ELSE LET cmd == Unwrap(res.command)
         IN  IF cmd = Cmd("Incomplete") THEN FALSE
             ELSE IF res.motion[1] = "Valid" THEN TRUE
             ELSE IF res.motion = Incomplete
             THEN ~requires_motion(cmd) \/ mode = "Visual"
             ELSE FALSE

\* ParsedViSequence::changes_mode.
changes_mode(res) ==
    IF res.command = None THEN None
    ELSE LET cmd == Unwrap(res.command)
         IN  IF res.motion = Incomplete
                /\ cmd[1] \in {"EnterViInsert", "EnterViAppend", "ChangeToLineEnd",
                               "AppendToEnd", "PrependToStart", "RewriteCurrentLine",
                               "SubstituteCharWithInsert", "HistorySearch", "ChangeInside"}
             THEN Some("Insert")
             ELSE IF cmd = Cmd("Change") /\ res.motion[1] = "Valid" THEN Some("Insert")
             ELSE IF cmd = Cmd("Delete") /\ res.motion = Incomplete THEN Some("Normal")
             ELSE None

\* ViCharSearch::to_move.
CharSearchToMove(cs, select) ==
    CASE cs[1] = "ToRight" -> <<"MoveRightUntil", cs[2], select>>
      [] cs[1] = "TillRight" -> <<"MoveRightBefore", cs[2], select>>
      [] cs[1] = "ToLeft" -> <<"MoveLeftUntil", cs[2], select>>
      [] cs[1] = "TillLeft" -> <<"MoveLeftBefore", cs[2], select>>

\* Motion::to_reedline: the Vi state afterwards and the Vec<ReedlineOption>.
MotionToReedline(motion, vi_state) ==
    LET select == vi_state.mode = "Visual"
        m == motion[1]
        keep(opts) == [vi |-> vi_state, ret |-> opts]
    IN  CASE m = "Left" -> keep(<<OptEvent(UntilFound(<<<<"MenuLeft">>,
                                        Edit(<<<<"MoveLeft", select>>>>)>>))>>)
          [] m = "Right" -> keep(<<OptEvent(UntilFound(<<HistoryHintComplete, <<"MenuRight">>,
                                        Edit(<<<<"MoveRight", select>>>>)>>))>>)
          [] m = "Up" -> keep(<<OptEvent(UntilFound(<<<<"MenuUp">>, <<"Up">>>>))>>)
          [] m = "Down" -> keep(<<OptEvent(UntilFound(<<<<"MenuDown">>, <<"Down">>>>))>>)
          [] m = "NextWord" -> keep(<<OptEdit(<<"MoveWordRightStart", select>>)>>)
          [] m = "NextBigWord" -> keep(<<OptEdit(<<"MoveBigWordRightStart", select>>)>>)
          [] m = "NextWordEnd" -> keep(<<OptEdit(<<"MoveWordRightEnd", select>>)>>)
          [] m = "NextBigWordEnd" -> keep(<<OptEdit(<<"MoveBigWordRightEnd", select>>)>>)
          [] m = "PreviousWord" -> keep(<<OptEdit(<<"MoveWordLeft", select>>)>>)
          [] m = "PreviousBigWord" -> keep(<<OptEdit(<<"MoveBigWordLeft", select>>)>>)
          [] m = "Line" -> keep(<<>>)
          [] m = "Start" -> keep(<<OptEdit(<<"MoveToLineStart", select>>)>>)
          [] m = "End" -> keep(<<OptEdit(<<"MoveToLineEnd", select>>)>>)
          [] m \in {"RightUntil", "RightBefore", "LeftUntil", "LeftBefore"} ->
                [vi |-> [vi_state EXCEPT !.last_char_search = Some(CharSearchOf(motion))],
                 ret |-> <<OptEdit(CharSearchToMove(CharSearchOf(motion), select))>>]
          [] m = "ReplayCharSearch" ->
                keep(IF IsSome(vi_state.last_char_search)
                     THEN <<OptEdit(CharSearchToMove(Unwrap(vi_state.last_char_search),
                                                    select))>>
                     ELSE <<>>)
          [] m = "ReverseCharSearch" ->
                keep(IF IsSome(vi_state.last_char_search)
                     THEN <<OptEdit(CharSearchToMove(
                                CharSearchReverse(Unwrap(vi_state.last_char_search)), select))>>
                     ELSE <<>>)

\* iter::repeat(seq).take(n), flattened: n copies of seq in a row.
Repeat(seq, n) ==
    IF n <= 0 \/ seq = <<>> THEN <<>>
    ELSE [k \in 1..(n * Len(seq)) |-> seq[((k - 1) % Len(seq)) + 1]]

\* ReedlineOption::into_reedline_event over a list, Incomplete dropped.
RECURSIVE IntoReedlineEvents(_)
IntoReedlineEvents(opts) ==
    IF opts = <<>> THEN <<>>
    ELSE LET o == opts[1]
             rest == IntoReedlineEvents(Tail(opts))
         IN  CASE o[1] = "Edit" -> <<Edit(<<o[2]>>)>> \o rest
               [] o[1] = "Event" -> <<o[2]>> \o rest
               [] OTHER -> rest

\* ParsedViSequence::apply_multiplier.
apply_multiplier(res, raw_events) ==
    IF raw_events = None THEN EvNone
    ELSE LET total == (IF IsSome(res.multiplier) THEN Unwrap(res.multiplier) ELSE 1)
                      * (IF IsSome(res.count) THEN Unwrap(res.count) ELSE 1)
             events == IntoReedlineEvents(Repeat(Unwrap(raw_events), total))
         IN  IF events = <<>> \/ \E i \in 1..Len(events) : events[i] = EvNone
             THEN EvNone
             ELSE Multiple(events)

\* ParsedViSequence::to_reedline_event: the Vi state afterwards and the event.
to_reedline_event(res, vi_state) ==
    LET remember(st, ev) ==
            [vi |-> IF ev = EvNone THEN st ELSE [st EXCEPT !.previous = Some(ev)],
             ret |-> ev]
    IN  IF IsSome(res.command) /\ res.count = None /\ res.motion = Incomplete
        THEN remember(vi_state,
                      apply_multiplier(res, Some(CommandToReedline(Unwrap(res.command),
                                                                   vi_state))))
        ELSE IF IsSome(res.command) /\ res.motion[1] = "Valid"
        THEN LET r == CommandToReedlineWithMotion(Unwrap(res.command), res.motion[2],
                                                  vi_state)
             IN  remember(r.vi, apply_multiplier(res, r.ret))
        ELSE IF res.command = None /\ res.motion[1] = "Valid"
        THEN LET r == MotionToReedline(res.motion[2], vi_state)
             IN  [vi |-> r.vi, ret |-> apply_multiplier(res, Some(r.ret))]
        ELSE [vi |-> vi_state, ret |-> EvNone]

(***************************************************************************)
(* vi/mod.rs                                                               *)
(***************************************************************************)
ViNew(insert_keybindings, normal_keybindings, mode) ==
    [cache |-> <<>>,
     insert_keybindings |-> insert_keybindings,
     normal_keybindings |-> normal_keybindings,
     mode |-> mode,
     previous |-> None,
     last_char_search |-> None,
     partial_key_sequence |-> None]

\* Vi::active_bindings.
ViActiveBindings(self) ==
    IF self.mode = "Insert" THEN self.insert_keybindings ELSE self.normal_keybindings

\* The matcher handle_binding starts when none is pending: on the subtree
\* bound to the key, or on a one-entry map holding the bound event.
ViStartSequence(self, kc) ==
    LET found == FindBinding(ViActiveBindings(self), kc.modifier,
                             ToLowercaseKeyCode(kc.key_code))
    IN  IF found = None THEN None
        ELSE IF IsSequence(Unwrap(found))
        THEN Some(PartialKeySequenceNew(Unwrap(found)[2]))
        ELSE Some(PartialKeySequenceNew(kc :> Unwrap(found)))

\* The fallback of handle_binding over the keys of a cancelled sequence:
\* the events collected, and whether unreachable! was hit.
RECURSIVE ViCancelled(_, _)
ViCancelled(self, keycombinations) ==
    IF keycombinations = <<>> THEN [events |-> <<>>, panic |-> FALSE]
    ELSE LET kc == keycombinations[1]
             rest == ViCancelled(self, Tail(keycombinations))
             found == FindBinding(ViActiveBindings(self), kc.modifier,
                                  ToLowercaseKeyCode(kc.key_code))
         IN  IF kc.key_code.kind = "Char"
             THEN [events |-> <<Edit(<<InsertChar(kc.key_code.c)>>)>> \o rest.events,
                   panic |-> rest.panic]
             ELSE IF found = None THEN rest
             ELSE IF IsEvent(Unwrap(found))
             THEN [events |-> <<Unwrap(found)[2]>> \o rest.events, panic |-> rest.panic]
             ELSE [events |-> <<>>, panic |-> TRUE]

\* Vi::handle_binding: the driver afterwards, the Option<ReedlineEvent>, and
\* whether it panicked.
ViHandleBinding(self, kc) ==
    LET taken == [self EXCEPT !.partial_key_sequence = None]
        partial == IF IsSome(self.partial_key_sequence)
                   THEN self.partial_key_sequence
                   ELSE ViStartSequence(self, kc)
    IN  IF partial = None
        THEN [self |-> taken,
              ret |-> IF self.mode = "Insert" /\ kc.key_code.kind = "Char"
                      THEN Some(Edit(<<InsertChar(kc.key_code.c)>>)) ELSE None,
              panic |-> FALSE]
        ELSE LET r == Advance(Unwrap(partial), kc)
             IN  CASE r.result = Pending ->
                        [self |-> taken, ret |-> None, panic |-> FALSE]
                   [] r.result[1] = "Matched" ->
                        [self |-> taken, ret |-> Some(r.result[2]), panic |-> FALSE]
                   [] r.result[1] = "Cancelled" ->
                        LET c == ViCancelled(taken, r.result[2])
                        IN  [self |-> taken, ret |-> Some(Multiple(c.events)),
                             panic |-> c.panic]

\* A plausible slip: an invalid parse keeps the buffer.
ViInvalidKeepsCache(self) == [self |-> self, ret |-> EvNone]

\* parse_event, the parse is not valid: the buffer is discarded.
ViInvalid(self) == [self |-> [self EXCEPT !.cache = <<>>], ret |-> EvNone]

\* A plausible slip: the character is pushed as it is, shift or not.
ViPushAndParseNoCase(self, modifier, c) ==
    LET pushed == [self EXCEPT !.cache = Append(@, c)]
        res == parse(pushed.cache)
    IN  IF ~is_valid(res) THEN ViInvalid(pushed)
        ELSE IF is_complete(res, pushed.mode)
        THEN LET moded == IF IsSome(changes_mode(res))
                          THEN [pushed EXCEPT !.mode = Unwrap(changes_mode(res))]
                          ELSE pushed
                 r == to_reedline_event(res, moded)
             IN  [self |-> [r.vi EXCEPT !.cache = <<>>], ret |-> r.ret]
        ELSE [self |-> pushed, ret |-> EvNone]

\* parse_event, an unbound plain or shifted character in Normal or Visual
\* mode: push it and parse the buffer.
ViPushAndParse(self, modifier, c) ==
    LET pushed == [self EXCEPT !.cache =
                      Append(@, IF modifier = "SHIFT" THEN ToAsciiUppercase(c) ELSE c)]
        res == parse(pushed.cache)
    IN  IF ~is_valid(res) THEN ViInvalid(pushed)
        ELSE IF is_complete(res, pushed.mode)
        THEN LET moded == IF IsSome(changes_mode(res))
                          THEN [pushed EXCEPT !.mode = Unwrap(changes_mode(res))]
                          ELSE pushed
                 r == to_reedline_event(res, moded)
             IN  [self |-> [r.vi EXCEPT !.cache = <<>>], ret |-> r.ret]
        ELSE [self |-> pushed, ret |-> EvNone]

EscRepaint == Multiple(<<<<"Esc">>, Repaint>>)

\* A plausible slip: Enter is returned but the sub-mode is kept.
ViEnterKeepsMode(self) == [self |-> self, ret |-> <<"Enter">>]

\* parse_event, Enter without modifier: Insert mode, accept the line.
ViEnter(self) == [self |-> [self EXCEPT !.mode = "Insert"], ret |-> <<"Enter">>]

\* Vi::parse_event, key presses: the driver afterwards and the returned event
\* (Panic when handle_binding hit unreachable!).
ViParseKey(self, modifier, code) ==
    LET viaBinding(kc, otherwise) ==
            LET r == ViHandleBinding(self, kc)
            IN  IF r.panic THEN [self |-> r.self, ret |-> Panic]
                ELSE IF IsSome(r.ret) THEN [self |-> r.self, ret |-> Unwrap(r.ret)]
                ELSE [self |-> r.self, ret |-> otherwise]
    IN  IF self.mode \in {"Normal", "Visual"} /\ code.kind = "Char"
        THEN LET c == ToAsciiLowercase(code.c)
                 r == ViHandleBinding(self, KeyCombination(modifier, Char(c)))
             IN  IF r.panic THEN [self |-> r.self, ret |-> Panic]
                 ELSE IF IsSome(r.ret) THEN [self |-> r.self, ret |-> Unwrap(r.ret)]
                 ELSE IF r.self.mode = "Normal" /\ modifier = "NONE" /\ code = Char("v")
                 THEN [self |-> [r.self EXCEPT !.cache = <<>>, !.mode = "Visual"],
                       ret |-> EscRepaint]
                 ELSE IF modifier \in {"NONE", "SHIFT"}
                 THEN ViPushAndParse(r.self, modifier, c)
                 ELSE [self |-> r.self, ret |-> EvNone]
        ELSE IF self.mode = "Insert" /\ code.kind = "Char"
        THEN viaBinding(KeyCombination(modifier, code),
                        IF TypingModifier(modifier)
                        THEN Edit(<<InsertChar(code.c)>>) ELSE EvNone)
        ELSE IF modifier = "NONE" /\ code.kind = "Esc"
        THEN [self |-> [self EXCEPT !.cache = <<>>, !.partial_key_sequence = None,
                                    !.mode = "Normal"],
              ret |-> EscRepaint]
        ELSE IF modifier = "NONE" /\ code.kind = "Enter"
        THEN ViEnter(self)
        ELSE viaBinding(KeyCombination(modifier, code), EvNone)

\* Vi::parse_event.
ViParseEvent(self, event) ==
    IF event[1] # "Key" THEN [self |-> self, ret |-> ParseOtherEvent(event)]
    ELSE ViParseKey(self, event[2].modifier, event[2].key_code)

\* The tables (insert, normal) the Vi driver is built with.
ViBindingLists ==
    { <<>>,
      <<Binding(<<Plain("g"), Plain("g")>>, ClearScreen)>>,
      <<Binding(<<Plain("x"), Plain("g")>>, ClearScreen)>>,
      <<Binding(<<Plain("g")>>, ClearScreen),
        Binding(<<KeyEsc>>, CtrlD),
        Binding(<<KeyEnter>>, HistoryHintComplete)>>,
      <<Binding(<<Plain("g"), Plain("g"), Plain("x")>>, CtrlD),
        Binding(<<Shift("G")>>, HistoryHintComplete),
        Binding(<<KeyUp>>, MenuUpOrUp)>>,
      <<Binding(<<KeyUp, Plain("g")>>, ClearScreen),
        Binding(<<Plain("q")>>, CtrlD)>> }

ViTables == { BuildKb(bs) : bs \in ViBindingLists }

ViInputs ==
    { Key(k) : k \in {Plain("g"), Plain("x"), Shift("G"), Plain("d"), Plain("w"),
                      Plain("q"), Plain("v"), Ctrl("q"), KeyUp, KeyEsc, KeyEnter} }
      \cup {FocusLost}

InitVi ==
    /\ kb = KeybindingsNew /\ panicked = FALSE /\ last = None
    /\ pks = None /\ results = <<>>
    /\ emacs = None
    /\ \E t \in ViTables, mode \in {"Insert", "Normal"} : vi = Some(ViNew(t, t, mode))
    /\ helix = None
    /\ line_buffer = None
    /\ presses = <<>>

ViPress(event) ==
    /\ IsSome(vi)
    /\ Len(presses) < MaxKeys
    /\ NoPanic
    /\ LET r == ViParseEvent(Unwrap(vi), event)
       IN  /\ vi' = Some(r.self)
           /\ presses' = Append(presses, [event |-> event, ret |-> r.ret,
                                          before |-> Unwrap(vi)])
    /\ UNCHANGED <<kbVars, emacs, helix, line_buffer>>

NextVi == \E event \in ViInputs : ViPress(event)

SpecVi == InitVi /\ [][NextVi]_vars

(***************************************************************************)
(* helix/mod.rs                                                            *)
(***************************************************************************)
ModeInsert == <<"Insert">>
ModeNormal(minor) == <<"Normal", minor>>
HelixEv(event) == <<"Helix", event>>
NormalMode == <<"NormalMode">>
HelixNormal(name) == <<"Normal", name>>

\* usize_bits and overflow_checks are not fields of Helix: they record the
\* build the driver runs in, the width of usize on the target and whether
\* arithmetic overflow panics (the default of a debug profile) or wraps.
HelixNew(insert_keybindings, normal_keybindings, mode) ==
    [insert_keybindings |-> insert_keybindings,
     normal_keybindings |-> normal_keybindings,
     mode |-> mode,
     count |-> None,
     partial_key_sequence |-> None,
     on_next_char |-> None,
     usize_bits |-> 64,
     overflow_checks |-> FALSE]

\* A plausible slip: the mode is switched and the pending state is kept.
HelixSetModeOnly(self, mode) == [self EXCEPT !.mode = mode]

\* A plausible slip: the minor mode is not stored.
HelixSetModeNoMinor(self, mode) ==
    [self EXCEPT !.mode = IF mode = ModeInsert THEN mode ELSE ModeNormal(None),
                 !.count = None, !.partial_key_sequence = None, !.on_next_char = None]

\* Helix::set_mode.
HelixSetMode(self, mode) ==
    [self EXCEPT !.mode = mode, !.count = None,
                 !.partial_key_sequence = None, !.on_next_char = None]

\* Helix::active_bindings.
HelixActiveBindings(self) ==
    IF self.mode = ModeInsert THEN self.insert_keybindings ELSE self.normal_keybindings

\* A LineBuffer of one-byte characters: [buffer, insertion_point].
LineBuffer(buffer, insertion_point) ==
    [buffer |-> buffer, insertion_point |-> insertion_point]

\* hinter::is_whitespace_str: every character of the string is white space.
is_whitespace_str(str) == \A i \in 1..Len(str) : str[i] = " "

\* grapheme_right_n: the n-th grapheme from the insertion point, or all of
\* the text from the insertion point when there are not that many.
grapheme_right_n(lb, n) ==
    LET buf == SubSeq(lb.buffer, lb.insertion_point + 1, Len(lb.buffer))
    IN  IF n + 1 <= Len(buf) THEN <<buf[n + 1]>> ELSE buf

\* grapheme_left_n panics on an empty buffer: len() - 1 overflows in a
\* checked build, and in an unchecked one the slice ..=0 is out of range.
grapheme_left_n_panics(lb) == Len(lb.buffer) = 0

\* grapheme_left_n, when it returns.
grapheme_left_n(lb, n) ==
    IF lb.insertion_point > Len(lb.buffer) - 1 THEN <<>>
    ELSE LET buf == SubSeq(lb.buffer, 1, lb.insertion_point + 1)
         IN  IF Len(buf) - n >= 1 THEN <<buf[Len(buf) - n]>> ELSE buf

\* A plausible slip in apply_multiplier: the count is ignored.
helix_apply_multiplier_once(event, count) == Multiple(<<event>>)

\* helix apply_multiplier.
helix_apply_multiplier(event, count) == Multiple(Repeat(<<event>>, count))

\* Vec::insert(base.len() - 1, e).
InsertBeforeLast(base, e) ==
    SubSeq(base, 1, Len(base) - 1) \o <<e>> \o <<base[Len(base)]>>

\* The word motions of handle_helix_event: the repeated selecting motion,
\* ClearSelection before the last one unless selecting, and the extra
\* one-character step before the last one when the buffer asks for it.
WordMotion(cmd, count, select, step, stepCmd) ==
    LET base == Repeat(<<<<cmd, TRUE>>>>, count)
        cleared == IF ~select THEN InsertBeforeLast(base, <<"ClearSelection">>) ELSE base
    IN  Edit(IF step THEN InsertBeforeLast(cleared, <<stepCmd, select>>) ELSE cleared)

StepForwardStart(lb, count) ==
    \/ /\ is_whitespace_str(grapheme_right_n(lb, 0))
       /\ ~is_whitespace_str(grapheme_right_n(lb, 1))
    \/ count > 1

\* Helix::handle_helix_event: the driver afterwards, the Option<ReedlineEvent>
\* and whether it panicked.
HelixHandleHelixEvent(self, lb, event) ==
    LET count == IF IsSome(self.count) THEN Unwrap(self.count) ELSE 1
        taken == [self EXCEPT !.count = None]
        select == taken.mode = ModeNormal(Some("Select"))
        ok(st, ev) == [self |-> st, ret |-> Some(ev), panic |-> FALSE]
        back(cmd) == IF grapheme_left_n_panics(lb)
                     THEN [self |-> taken, ret |-> None, panic |-> TRUE]
                     ELSE ok(taken, WordMotion(cmd, count, select,
                                               is_whitespace_str(grapheme_left_n(lb, 1)),
                                               "MoveLeft"))
        name == event[2]
    IN  IF event = NormalMode
        THEN ok(HelixSetMode(taken, ModeNormal(None)),
                IF self.mode = ModeInsert THEN Repaint ELSE EvNone)
        ELSE IF taken.mode = ModeInsert THEN ok(taken, EvNone)
        ELSE CASE name = "InsertMode" -> ok(HelixSetMode(taken, ModeInsert), Repaint)
               [] name = "SelectMode" ->
                     ok(HelixSetMode(taken, IF select THEN ModeNormal(None)
                                            ELSE ModeNormal(Some("Select"))), EvNone)
               [] name = "MoveCharLeft" ->
                     ok(taken, helix_apply_multiplier(Edit(<<<<"MoveLeft", select>>>>), count))
               [] name = "MoveVisualLineDown" ->
                     ok(taken, helix_apply_multiplier(<<"Down">>, count))
               [] name = "MoveVisualLineUp" ->
                     ok(taken, helix_apply_multiplier(<<"Up">>, count))
               [] name = "MoveCharRight" ->
                     ok(taken, helix_apply_multiplier(Edit(<<<<"MoveRight", select>>>>), count))
               [] name = "MoveNextWordStart" ->
                     ok(taken, WordMotion("MoveWordRightBeforeStart", count, select,
                                          StepForwardStart(lb, count), "MoveRight"))
               [] name = "MovePrevWordStart" -> back("MoveWordLeft")
               [] name = "MoveNextWordEnd" ->
                     ok(taken, WordMotion("MoveWordRightEnd", count, select,
                                          is_whitespace_str(grapheme_right_n(lb, 1)),
                                          "MoveRight"))
               [] name = "MoveNextLongWordStart" ->
                     ok(taken, WordMotion("MoveBigWordRightBeforeStart", count, select,
                                          StepForwardStart(lb, count), "MoveRight"))
               [] name = "MovePrevLongWordStart" -> back("MoveBigWordLeft")
               [] name = "MoveNextLongWordEnd" ->
                     ok(taken, WordMotion("MoveBigWordRightEnd", count, select,
                                          is_whitespace_str(grapheme_right_n(lb, 1)),
                                          "MoveRight"))
               [] name = "FindTillChar" ->
                     ok([taken EXCEPT !.on_next_char =
                            Some([count |-> count, select |-> select])], EvNone)

\* A plausible slip: the continuation moves once, whatever count it captured.
OnNextCharOnce(closure, kc) ==
    IF kc.key_code.kind = "Char"
    THEN LET base == <<<<"MoveRightBefore", kc.key_code.c, TRUE>>>>
         IN  Some(Edit(IF closure.select THEN <<<<"Clear">>>> \o base ELSE base))
    ELSE None

\* The closure FindTillChar stores in on_next_char, applied to the next key.
OnNextChar(closure, kc) ==
    IF kc.key_code.kind = "Char"
    THEN LET base == Repeat(<<<<"MoveRightBefore", kc.key_code.c, TRUE>>>>, closure.count)
         IN  Some(Edit(IF closure.select THEN <<<<"Clear">>>> \o base ELSE base))
    ELSE None

\* The flat_map of cancel_key_sequence over the keys, in order: the driver
\* afterwards, the events collected and whether unreachable! was hit.
RECURSIVE HelixCancelEach(_, _, _)
HelixCancelEach(self, lb, keycombinations) ==
    IF keycombinations = <<>> THEN [self |-> self, events |-> <<>>, panic |-> FALSE]
    ELSE LET kc == keycombinations[1]
             found == FindBinding(HelixActiveBindings(self), kc.modifier,
                                  ToLowercaseKeyCode(kc.key_code))
             then(st, evs) ==
                 LET rest == HelixCancelEach(st, lb, Tail(keycombinations))
                 IN  [self |-> rest.self, events |-> evs \o rest.events,
                      panic |-> rest.panic]
         IN  IF kc.modifier \in {"SHIFT", "NONE"} /\ kc.key_code.kind = "Char"
             THEN then(self, IF self.mode = ModeInsert
                             THEN <<Edit(<<InsertChar(kc.key_code.c)>>)>> ELSE <<>>)
             ELSE IF found = None THEN then(self, <<>>)
             ELSE IF IsSequence(Unwrap(found))
             THEN [self |-> self, events |-> <<>>, panic |-> TRUE]
             ELSE LET ev == Unwrap(found)[2]
                  IN  IF ev[1] = "Helix"
                      THEN LET r == HelixHandleHelixEvent(self, lb, ev[2])
                           IN  IF r.panic
                               THEN [self |-> r.self, events |-> <<>>, panic |-> TRUE]
                               ELSE then(r.self, <<Unwrap(r.ret)>>)
                      ELSE then(self, <<ev>>)

\* Helix::cancel_key_sequence.
HelixCancelKeySequence(self, lb, keycombinations) ==
    LET r == HelixCancelEach([self EXCEPT !.count = None], lb, keycombinations)
    IN  [self |-> r.self,
         ret |-> IF r.events # <<>> THEN Some(Multiple(r.events)) ELSE None,
         panic |-> r.panic]

CountCap == 100000000

\* A plausible slip: the digit 0 starts a count as the other digits do.
HelixCountDigitZeroStarts(self, c) ==
    IF ~IsDigit(c) THEN self
    ELSE IF IsSome(self.count) /\ Unwrap(self.count) >= CountCap THEN self
    ELSE [self EXCEPT !.count =
             Some((IF IsSome(self.count) THEN Unwrap(self.count) * 10 ELSE 0)
                  + DigitValue(c))]

\* handle_binding, an unbound character in Normal mode: a digit extends the
\* count in progress, a non-zero digit starts one.
HelixCountDigit(self, c) ==
    IF ~IsDigit(c) THEN self
    ELSE IF IsSome(self.count)
    THEN IF Unwrap(self.count) < CountCap
         THEN [self EXCEPT !.count = Some(Unwrap(self.count) * 10 + DigitValue(c))]
         ELSE self
    ELSE IF c # "0" THEN [self EXCEPT !.count = Some(DigitValue(c))]
    ELSE self

\* usize::MAX of a 32-bit target is 4294967295 = 10 * 429496729 + 5.
Usize32MaxDiv10 == 429496729
Usize32MaxMod10 == 5

\* handle_binding computes count * 10 + n before it tests the count against
\* the cap: whether that arithmetic leaves the range of usize. A count is at
\* most 999999999, so on a 64-bit target it never does.
HelixCountOverflows(self, c) ==
    /\ IsDigit(c)
    /\ IsSome(self.count)
    /\ self.usize_bits = 32
    /\ \/ Unwrap(self.count) > Usize32MaxDiv10
       \/ /\ Unwrap(self.count) = Usize32MaxDiv10
          /\ DigitValue(c) > Usize32MaxMod10

\* The matcher handle_binding starts when none is pending: on a one-entry
\* map from the key as pressed to what the table binds to it.
HelixStartSequence(self, kc) ==
    LET found == FindBinding(HelixActiveBindings(self), kc.modifier,
                             ToLowercaseKeyCode(kc.key_code))
    IN  IF found = None THEN None
        ELSE Some(PartialKeySequenceNew(kc :> Unwrap(found)))

\* Helix::handle_binding.
HelixHandleBinding(self, lb, kc) ==
    LET ret(st, r) == [self |-> st, ret |-> r, panic |-> FALSE]
        taken == [self EXCEPT !.partial_key_sequence = None]
        partial == IF IsSome(self.partial_key_sequence)
                   THEN self.partial_key_sequence
                   ELSE HelixStartSequence(self, kc)
    IN  IF kc.key_code.kind = "Esc"
        THEN IF IsSome(self.partial_key_sequence)
             THEN HelixCancelKeySequence([taken EXCEPT !.on_next_char = None], lb,
                                         Unwrap(self.partial_key_sequence).history)
             ELSE HelixHandleHelixEvent([self EXCEPT !.on_next_char = None], lb, NormalMode)
        ELSE IF IsSome(self.on_next_char)
        THEN ret([self EXCEPT !.on_next_char = None],
                 OnNextChar(Unwrap(self.on_next_char), kc))
        ELSE IF partial = None
        THEN IF kc.key_code.kind = "Char"
             THEN IF self.mode = ModeInsert
                  THEN ret(taken, Some(Edit(<<InsertChar(kc.key_code.c)>>)))
                  ELSE IF HelixCountOverflows(taken, kc.key_code.c)
                          /\ taken.overflow_checks
                  THEN [self |-> taken, ret |-> None, panic |-> TRUE]
                  ELSE ret(HelixCountDigit(taken, kc.key_code.c), None)
             ELSE ret(taken, None)
        ELSE LET r == Advance(Unwrap(partial), kc)
             IN  CASE r.result = Pending ->
                        ret([taken EXCEPT !.partial_key_sequence = Some(r.pks)], None)
                   [] r.result[1] = "Matched" ->
                        IF r.result[2][1] = "Helix"
                        THEN HelixHandleHelixEvent(taken, lb, r.result[2][2])
                        ELSE ret(taken, Some(r.result[2]))
                   [] r.result[1] = "Cancelled" ->
                        HelixCancelKeySequence(taken, lb, r.result[2])

\* Helix::parse_event.
HelixParseEvent(self, lb, event) ==
    IF event[1] # "Key" THEN [self |-> self, ret |-> ParseOtherEvent(event)]
    ELSE LET r == HelixHandleBinding(self, lb, event[2])
         IN  [self |-> r.self,
              ret |-> IF r.panic THEN Panic
                      ELSE IF IsSome(r.ret) THEN Unwrap(r.ret) ELSE EvNone]

\* The (insert, normal) tables the Helix driver is built with.
HelixNormalCommands ==
    <<Binding(<<KeyEsc>>, HelixEv(NormalMode)),
      Binding(<<Plain("i")>>, HelixEv(HelixNormal("InsertMode"))),
      Binding(<<Plain("v")>>, HelixEv(HelixNormal("SelectMode"))),
      Binding(<<Plain("h")>>, HelixEv(HelixNormal("MoveCharLeft"))),
      Binding(<<Plain("w")>>, HelixEv(HelixNormal("MoveNextWordStart"))),
      Binding(<<Plain("b")>>, HelixEv(HelixNormal("MovePrevWordStart"))),
      Binding(<<Plain("t")>>, HelixEv(HelixNormal("FindTillChar")))>>

HelixBindingLists ==
    { <<<<Binding(<<Plain("g"), Plain("g")>>, ClearScreen)>>,
        HelixNormalCommands>>,
      <<<<Binding(<<KeyEsc>>, HelixEv(NormalMode)),
          Binding(<<Plain("x")>>, CtrlD),
          Binding(<<Shift("G")>>, HistoryHintComplete)>>,
        <<Binding(<<Plain("g"), Plain("g")>>, ClearScreen),
          Binding(<<Plain("i")>>, HelixEv(HelixNormal("InsertMode"))),
          Binding(<<KeyUp, Plain("g")>>, ClearScreen)>>>>,
      <<<<Binding(<<Plain("g"), Plain("x"), Plain("g")>>, CtrlD),
          Binding(<<KeyUp>>, MenuUpOrUp),
          Binding(<<Plain("i")>>, HelixEv(HelixNormal("InsertMode")))>>,
        HelixNormalCommands \o <<Binding(<<Plain("2")>>, CtrlD),
                                 Binding(<<Plain("g")>>, ClearScreen)>>>>,
      <<<<Binding(<<Ctrl("g")>>, Edit(<<<<"Redo">>>>))>>,
        <<Binding(<<Plain("g"), Ctrl("g"), Plain("x")>>, CtrlD),
          Binding(<<Ctrl("g")>>, HelixEv(HelixNormal("FindTillChar")))>>>> }

HelixInputs ==
    { Key(k) : k \in {Plain("g"), Plain("x"), Plain("i"), Plain("v"), Plain("h"),
                      Plain("w"), Plain("b"), Plain("t"), Plain("2"), Shift("G"),
                      Ctrl("g"), KeyUp, KeyEsc} }
      \cup {FocusLost}

LineBuffers ==
    { LineBuffer(<<>>, 0),
      LineBuffer(<<"a", " ", "b">>, 1),
      LineBuffer(<<"a", "b">>, 2) }

InitHelix ==
    /\ kb = KeybindingsNew /\ panicked = FALSE /\ last = None
    /\ pks = None /\ results = <<>>
    /\ emacs = None
    /\ vi = None
    /\ \E t \in HelixBindingLists, mode \in {ModeInsert, ModeNormal(None)} :
            helix = Some(HelixNew(BuildKb(t[1]), BuildKb(t[2]), mode))
    /\ \E lb \in LineBuffers : line_buffer = Some(lb)
    /\ presses = <<>>

HelixPress(event) ==
    /\ IsSome(helix)
    /\ Len(presses) < MaxKeys
    /\ NoPanic
    /\ LET r == HelixParseEvent(Unwrap(helix), Unwrap(line_buffer), event)
       IN  /\ helix' = Some(r.self)
           /\ presses' = Append(presses, [event |-> event, ret |-> r.ret,
                                          before |-> Unwrap(helix)])
    /\ UNCHANGED <<kbVars, emacs, vi, line_buffer>>

NextHelix == \E event \in HelixInputs : HelixPress(event)

SpecHelix == InitHelix /\ [][NextHelix]_vars

(***************************************************************************)
(* Properties of the Vi driver (SpecVi)                                    *)
(***************************************************************************)
\* The driver as parse_event call i left it.
After(i) == IF i < Len(presses) THEN presses[i + 1].before ELSE
            IF IsSome(vi) THEN Unwrap(vi) ELSE
            IF IsSome(emacs) THEN Unwrap(emacs) ELSE Unwrap(helix)

\* The edit commands an event carries, in order.
RECURSIVE EditCommandsOf(_)
EditCommandsOf(ev) ==
    LET RECURSIVE All(_)
        All(evs) == IF evs = <<>> THEN <<>>
                    ELSE EditCommandsOf(evs[1]) \o All(Tail(evs))
    IN  CASE ev[1] = "Edit" -> ev[2]
          [] ev[1] \in {"Multiple", "UntilFound"} -> All(ev[2])
          [] OTHER -> <<>>

Unbound(keybindings, kc) ==
    FindBinding(keybindings, kc.modifier, ToLowercaseKeyCode(kc.key_code)) = None

\* Calls i and i+1 are the plain keys d and w, pressed in Normal mode on an
\* empty buffer with neither key bound in the normal table.
DThenW(i) ==
    /\ i + 1 <= Len(presses)
    /\ presses[i].event = Key(Plain("d"))
    /\ presses[i + 1].event = Key(Plain("w"))
    /\ presses[i].before.mode = "Normal"
    /\ presses[i].before.cache = <<>>
    /\ Unbound(presses[i].before.normal_keybindings, Plain("d"))
    /\ Unbound(presses[i].before.normal_keybindings, Plain("w"))

\* C9: in Vi Normal mode with an empty buffer and d, w unbound, pressing d
\* returns the no-op and leaves the buffer holding d; pressing w next returns
\* an event whose only edit command is CutWordRightToNext and the buffer is
\* empty afterwards.
C9_DeleteWord ==
    IsSome(vi) =>
        \A i \in 1..Len(presses) :
            DThenW(i) =>
                /\ presses[i].ret = EvNone
                /\ After(i).cache = <<"d">>
                /\ EditCommandsOf(presses[i + 1].ret) = <<<<"CutWordRightToNext">>>>
                /\ After(i + 1).cache = <<>>

C9_Witness ==
    /\ IsSome(vi)
    /\ Len(presses) >= 2
    /\ DThenW(1)
    /\ presses[2].ret = Multiple(<<Edit(<<<<"CutWordRightToNext">>>>)>>)

\* The character parse_event pushes to the buffer for a character key.
Pushed(event) ==
    IF event[2].modifier = "SHIFT"
    THEN ToAsciiUppercase(ToAsciiLowercase(event[2].key_code.c))
    ELSE ToAsciiLowercase(event[2].key_code.c)

\* Call i is a character key pressed in Normal or Visual mode, and the buffer
\* followed by that character is not a valid prefix of the grammar.
InvalidPrefix(i) ==
    /\ presses[i].event[1] = "Key"
    /\ presses[i].event[2].key_code.kind = "Char"
    /\ presses[i].before.mode \in {"Normal", "Visual"}
    /\ ~is_valid(parse(Append(presses[i].before.cache, Pushed(presses[i].event))))

Discarded(i) ==
    /\ presses[i].ret = EvNone
    /\ After(i).mode = presses[i].before.mode
    /\ After(i).cache = <<>>

\* C10 as stated: in Vi Normal or Visual mode, whenever the buffer plus the
\* pressed character is not a valid prefix, the press returns the no-op,
\* leaves the sub-mode unchanged and leaves the buffer empty.
C10_Original ==
    IsSome(vi) => \A i \in 1..Len(presses) : InvalidPrefix(i) => Discarded(i)

\* C10 amended: the same, when the key carries no modifier or only shift, no
\* binding of the normal table starts with it, and it is not the plain v
\* that takes Normal mode to Visual mode.
C10_InvalidDiscards ==
    IsSome(vi) =>
        \A i \in 1..Len(presses) :
            ( /\ InvalidPrefix(i)
              /\ presses[i].event[2].modifier \in {"NONE", "SHIFT"}
              /\ Unbound(presses[i].before.normal_keybindings, presses[i].event[2])
              /\ ~(presses[i].before.mode = "Normal" /\ presses[i].event = Key(Plain("v"))) )
            => Discarded(i)

C10_Witness ==
    /\ IsSome(vi)
    /\ Len(presses) >= 2
    /\ presses[2].event = Key(Plain("q"))
    /\ presses[2].before.cache = <<"d">>
    /\ InvalidPrefix(2)
    /\ Unbound(presses[2].before.normal_keybindings, Plain("q"))
    /\ Discarded(2)

(***************************************************************************)
(* The three drivers side by side (SpecDrivers)                            *)
(***************************************************************************)
InitDrivers == InitEmacs \/ InitVi \/ InitHelix

\* The keys pressed on all three drivers.
DriverInputs ==
    { Key(k) : k \in {Plain("g"), Plain("x"), Plain("i"), Plain("G"), Shift("G"),
                      Ctrl("g"), KeyUp, KeyEsc, KeyEnter} }

NextDrivers ==
    \E event \in DriverInputs :
        EmacsPress(event) \/ ViPress(event) \/ HelixPress(event)

SpecDrivers == InitDrivers /\ [][NextDrivers]_vars

\* The table a driver in state st looks a key up in.
ActiveTable(st) ==
    IF IsSome(emacs) THEN st.keybindings
    ELSE IF IsSome(vi) THEN ViActiveBindings(st)
    ELSE HelixActiveBindings(st)

\* No multi-key sequence and no single-character continuation is pending.
Idle(st) ==
    /\ st.partial_key_sequence = None
    /\ IsSome(helix) => st.on_next_char = None

\* The keys of calls i..j, all of them key presses.
KeysOf(i, j) == [k \in 1..(j - i + 1) |-> presses[i + k - 1].event[2]]
AllKeys(i, j) == \A k \in i..j : IsKeyPress(k)

\* What the active table binds at its root to the key of call i.
RootNode(i) == MapGet(ActiveTable(presses[i].before), PressedKey(i))

\* Call i presses, with nothing pending, a key the active table binds at its
\* root to a terminal event.
RootBound(i) ==
    /\ IsKeyPress(i)
    /\ Idle(presses[i].before)
    /\ IsSome(RootNode(i))
    /\ IsEvent(Unwrap(RootNode(i)))

RootEvent(i) == Unwrap(RootNode(i))[2]

\* C1 as stated: in every driver, with nothing pending, pressing a key the
\* active table binds at its root to a terminal event makes parse_event
\* return that event on that press.
C1_Original ==
    \A i \in 1..Len(presses) : RootBound(i) => presses[i].ret = RootEvent(i)

\* The key presses the drivers answer before, or instead of, the exact root
\* lookup: Esc and Enter without modifier in Vi, Esc in Helix, and an ASCII
\* upper-case letter (in Emacs only when a modifier is held).
AnsweredElsewhere(kc) ==
    \/ IsSome(vi) /\ kc \in {KeyEsc, KeyEnter}
    \/ IsSome(helix) /\ kc.key_code.kind = "Esc"
    \/ /\ kc.key_code.kind = "Char"
       /\ IsAsciiUppercase(kc.key_code.c)
       /\ IsSome(emacs) => kc.modifier # "NONE"

\* C1 amended: the same, provided the key is not one the driver answers
\* elsewhere and, in Helix, the bound event is not a Helix command (those are
\* returned as their translation).
C1_RootBindingReturned ==
    \A i \in 1..Len(presses) :
        ( /\ RootBound(i)
          /\ ~AnsweredElsewhere(PressedKey(i))
          /\ IsSome(helix) => RootEvent(i)[1] # "Helix" )
        => presses[i].ret = RootEvent(i)

C1_Witness ==
    /\ IsSome(emacs)
    /\ Len(presses) >= 1
    /\ presses[1].event = Key(Ctrl("g"))
    /\ RootBound(1)
    /\ DOMAIN ActiveTable(presses[1].before) # {Ctrl("g")}
    /\ presses[1].ret = Edit(<<<<"Redo">>>>)

\* What the active table of call i binds to the keys of calls i..j.
PathNode(i, j) == Walk(ActiveTable(presses[i].before), KeysOf(i, j))

\* Calls i..j press, from an idle driver, exactly the keys of a path of two
\* or more keys that the active table binds to an event.
PathPressed(i, j) ==
    /\ i < j
    /\ AllKeys(i, j)
    /\ Idle(presses[i].before)
    /\ IsSome(PathNode(i, j))
    /\ IsEvent(Unwrap(PathNode(i, j)))

\* C3: in each driver, pressing the keys of a bound path of n >= 2 keys in
\* order returns the no-op for each of the first n-1 presses, keeps the
\* sequence pending between them, and returns the bound event on the n-th.
C3_SequencePending ==
    \A i \in 1..Len(presses) : \A j \in 1..Len(presses) :
        PathPressed(i, j) =>
            /\ \A k \in i..(j - 1) :
                  /\ presses[k].ret = EvNone
                  /\ IsSome(After(k).partial_key_sequence)
            /\ presses[j].ret = Unwrap(PathNode(i, j))[2]

\* Calls i and i+1 press g then x in an insert-capable idle state whose
\* active table binds the path g g to an event and binds neither g nor x on
\* its own.
GThenX(i) ==
    /\ i + 1 <= Len(presses)
    /\ presses[i].event = Key(Plain("g"))
    /\ presses[i + 1].event = Key(Plain("x"))
    /\ Idle(presses[i].before)
    /\ IsSome(vi) => presses[i].before.mode = "Insert"
    /\ IsSome(helix) => presses[i].before.mode = ModeInsert
    /\ LET gg == Walk(ActiveTable(presses[i].before), <<Plain("g"), Plain("g")>>)
       IN  IsSome(gg) /\ IsEvent(Unwrap(gg))
    /\ MapGet(ActiveTable(presses[i].before), Plain("x")) = None

\* An event that carries edit commands only.
RECURSIVE OnlyEdits(_)
OnlyEdits(ev) ==
    CASE ev = EvNone -> TRUE
      [] ev[1] = "Edit" -> TRUE
      [] ev[1] = "Multiple" -> \A k \in 1..Len(ev[2]) : OnlyEdits(ev[2][k])
      [] OTHER -> FALSE

\* C4: with g g bound and neither g nor x bound alone, pressing g then x in
\* an insert-capable state produces events whose combined edit commands are
\* exactly InsertChar g then InsertChar x, and no other event.
C4_CancelledKeysInserted ==
    \A i \in 1..Len(presses) :
        GThenX(i) =>
            /\ EditCommandsOf(presses[i].ret) \o EditCommandsOf(presses[i + 1].ret)
                  = <<InsertChar("g"), InsertChar("x")>>
            /\ OnlyEdits(presses[i].ret)
            /\ OnlyEdits(presses[i + 1].ret)

(***************************************************************************)
(* The Helix driver on its default normal table (SpecHelixDefault)         *)
(***************************************************************************)
\* default_helix_normal_keybindings, the bindings of Helix commands.
HelixDefaultNormal ==
    <<Binding(<<KeyEsc>>, HelixEv(NormalMode)),
      Binding(<<Plain("i")>>, HelixEv(HelixNormal("InsertMode"))),
      Binding(<<Plain("v")>>, HelixEv(HelixNormal("SelectMode"))),
      Binding(<<Plain("h")>>, HelixEv(HelixNormal("MoveCharLeft"))),
      Binding(<<Plain("j")>>, HelixEv(HelixNormal("MoveVisualLineDown"))),
      Binding(<<Plain("k")>>, HelixEv(HelixNormal("MoveVisualLineUp"))),
      Binding(<<Plain("l")>>, HelixEv(HelixNormal("MoveCharRight"))),
      Binding(<<Plain("w")>>, HelixEv(HelixNormal("MoveNextWordStart"))),
      Binding(<<Plain("b")>>, HelixEv(HelixNormal("MovePrevWordStart"))),
      Binding(<<Plain("e")>>, HelixEv(HelixNormal("MoveNextWordEnd"))),
      Binding(<<Shift("w")>>, HelixEv(HelixNormal("MoveNextLongWordStart"))),
      Binding(<<Shift("b")>>, HelixEv(HelixNormal("MovePrevLongWordStart"))),
      Binding(<<Shift("e")>>, HelixEv(HelixNormal("MoveNextLongWordEnd")))>>

\* default_helix_insert_keybindings, the binding of a Helix command.
HelixDefaultInsert == <<Binding(<<KeyEsc>>, HelixEv(NormalMode))>>

HelixDefaultInputs ==
    { Key(k) : k \in {Plain("3"), Plain("0"), Plain("h"), Plain("j"), Plain("k"),
                      Plain("l"), Plain("v"), KeyEsc} }

InitHelixDefault ==
    /\ kb = KeybindingsNew /\ panicked = FALSE /\ last = None
    /\ pks = None /\ results = <<>>
    /\ emacs = None
    /\ vi = None
    /\ \E mode \in {ModeInsert, ModeNormal(None)} :
            helix = Some(HelixNew(BuildKb(HelixDefaultInsert),
                                  BuildKb(HelixDefaultNormal), mode))
    /\ \E lb \in LineBuffers : line_buffer = Some(lb)
    /\ presses = <<>>

NextHelixDefault == \E event \in HelixDefaultInputs : HelixPress(event)

SpecHelixDefault == InitHelixDefault /\ [][NextHelixDefault]_vars

\* Call i is made in Helix Normal mode with nothing pending.
HelixNormalIdle(i) ==
    /\ IsSome(helix)
    /\ presses[i].before.mode # ModeInsert
    /\ Idle(presses[i].before)

CountOf(st) == IF IsSome(st.count) THEN Unwrap(st.count) ELSE 1
Selecting(st) == st.mode = ModeNormal(Some("Select"))

\* The operation each of the four counted motions repeats.
CountedMotion(kc, st) ==
    CASE kc = Plain("h") -> Edit(<<<<"MoveLeft", Selecting(st)>>>>)
      [] kc = Plain("l") -> Edit(<<<<"MoveRight", Selecting(st)>>>>)
      [] kc = Plain("j") -> <<"Down">>
      [] kc = Plain("k") -> <<"Up">>

\* C11: in Helix Normal mode with the default normal table, pressing 3 with
\* no count returns the no-op and sets the count to 3; pressing h, l, k or j
\* with count n (1 when empty) returns one composite holding exactly n copies
\* of the motion, and the count is empty afterwards.
C11_CountRepeatsMotion ==
    \A i \in 1..Len(presses) :
        /\ ( HelixNormalIdle(i) /\ presses[i].event = Key(Plain("3"))
             /\ presses[i].before.count = None )
           => /\ presses[i].ret = EvNone
              /\ After(i).count = Some(3)
        /\ ( HelixNormalIdle(i) /\ IsKeyPress(i)
             /\ PressedKey(i) \in {Plain("h"), Plain("j"), Plain("k"), Plain("l")} )
           => /\ presses[i].ret[1] = "Multiple"
              /\ Len(presses[i].ret[2]) = CountOf(presses[i].before)
              /\ \A k \in 1..Len(presses[i].ret[2]) :
                    presses[i].ret[2][k] = CountedMotion(PressedKey(i), presses[i].before)
              /\ After(i).count = None

C11_Witness ==
    /\ IsSome(helix)
    /\ Len(presses) >= 2
    /\ presses[1].before.mode = ModeNormal(None)
    /\ presses[1].event = Key(Plain("3"))
    /\ presses[2].event = Key(Plain("l"))
    /\ presses[2].before.count = Some(3)
    /\ presses[2].ret = Multiple(<<Edit(<<<<"MoveRight", FALSE>>>>),
                                   Edit(<<<<"MoveRight", FALSE>>>>),
                                   Edit(<<<<"MoveRight", FALSE>>>>)>>)
    /\ After(2).count = None

(***************************************************************************)
(* The Vi driver typing text-object commands (SpecViInside)                *)
(***************************************************************************)
\* The delimiter pairs of the text objects: opening and closing character.
DelimiterPairs ==
    { <<"(", ")">>, <<"[", "]">>, <<"{", "}">>, <<"<", ">">>,
      <<"DQUOTE", "DQUOTE">>, <<"SQUOTE", "SQUOTE">>, <<"BACKTICK", "BACKTICK">> }

Delimiters == { pair[1] : pair \in DelimiterPairs } \cup { pair[2] : pair \in DelimiterPairs }

ViInsideInputs == { Key(Plain(c)) : c \in {"c", "d", "i"} \cup Delimiters }

InitViInside ==
    /\ kb = KeybindingsNew /\ panicked = FALSE /\ last = None
    /\ pks = None /\ results = <<>>
    /\ emacs = None
    /\ vi = Some(ViNew(KeybindingsNew, KeybindingsNew, "Normal"))
    /\ helix = None
    /\ line_buffer = None
    /\ presses = <<>>

NextViInside == \E event \in ViInsideInputs : ViPress(event)

SpecViInside == InitViInside /\ [][NextViInside]_vars

\* Call i presses a delimiter of the pair after c i or d i was buffered in
\* Normal mode.
InsideCompleted(i, pair) ==
    /\ IsSome(vi)
    /\ presses[i].before.mode = "Normal"
    /\ presses[i].before.cache \in {<<"c", "i">>, <<"d", "i">>}
    /\ presses[i].event \in {Key(Plain(pair[1])), Key(Plain(pair[2]))}

\* C12: for every delimiter pair and every quote character, change-inside
\* and delete-inside emit exactly two edit commands, cut-left-before the
\* opening delimiter then cut-right-before the closing one, whichever
\* character of the pair the command was given.
C12_InsideCutsBothSides ==
    \A i \in 1..Len(presses) : \A pair \in DelimiterPairs :
        InsideCompleted(i, pair) =>
            EditCommandsOf(presses[i].ret)
                = << <<"CutLeftBefore", pair[1]>>, <<"CutRightBefore", pair[2]>> >>

C12_Witness ==
    /\ Len(presses) >= 3
    /\ InsideCompleted(3, <<"(", ")">>)
    /\ presses[1].event = Key(Plain("c"))
    /\ presses[3].event = Key(Plain(")"))
    /\ presses[3].ret = Multiple(<<Edit(<< <<"CutLeftBefore", "(">> >>),
                                   Edit(<< <<"CutRightBefore", ")">> >>)>>)

(***************************************************************************)
(* Escape in the Vi and Helix drivers (SpecDrivers)                        *)
(***************************************************************************)
\* Call i presses Escape without modifier on the Vi or the Helix driver and
\* parse_event returns.
EscPressed(i) ==
    /\ IsSome(vi) \/ IsSome(helix)
    /\ presses[i].event = Key(KeyEsc)
    /\ presses[i].ret # Panic

InNormalMode(st) ==
    IF IsSome(vi) THEN st.mode = "Normal" ELSE st.mode[1] = "Normal"

\* C13: in the Vi and Helix drivers, after Escape without modifier is
\* pressed the driver is in Normal mode, whatever the sub-mode was and
\* whatever count, pending sequence or pending continuation was held.
C13_EscLeadsToNormal ==
    \A i \in 1..Len(presses) : EscPressed(i) => InNormalMode(After(i))

\* No parse state is pending in the driver state st.
NothingPending(st) ==
    IF IsSome(vi)
    THEN st.cache = <<>> /\ st.partial_key_sequence = None
    ELSE st.count = None /\ st.partial_key_sequence = None /\ st.on_next_char = None

\* C14: in the Vi and Helix drivers, after Escape is pressed all pending
\* parse state is empty: Helix holds no count, no pending sequence and no
\* continuation, Vi an empty character buffer and no pending sequence.
C14_EscClearsPending ==
    \A i \in 1..Len(presses) : EscPressed(i) => NothingPending(After(i))

\* C17: the event returned for Escape is, in Vi, the composite of the escape
\* signal and a repaint; in Helix, a repaint when the driver was in Insert
\* mode before the key press and the no-op when it was in Normal mode.
C17_EscEvent ==
    \A i \in 1..Len(presses) :
        EscPressed(i) =>
            presses[i].ret = IF IsSome(vi) THEN EscRepaint
                             ELSE IF presses[i].before.mode = ModeInsert THEN Repaint
                             ELSE EvNone

(***************************************************************************)
(* Pasting into the three drivers (SpecPaste)                              *)
(***************************************************************************)
MaxPaste == 3          \* characters of a pasted text

PasteTexts == SeqsUpTo({"a", "CR", "LF"}, MaxPaste)

\* Keys that leave a driver with a pending sequence, buffer, count or
\* continuation.
PasteKeys == { Key(Plain(c)) : c \in {"g", "d", "3", "t"} }

InitPaste ==
    /\ kb = KeybindingsNew /\ panicked = FALSE /\ last = None
    /\ pks = None /\ results = <<>>
    /\ presses = <<>>
    /\ LET gg == BuildKb(<<Binding(<<Plain("g"), Plain("g")>>, ClearScreen)>>)
           normal == BuildKb(HelixNormalCommands)
       IN  \/ /\ emacs = Some(EmacsNew(gg))
              /\ vi = None /\ helix = None /\ line_buffer = None
           \/ /\ \E mode \in {"Insert", "Normal"} :
                     vi = Some(ViNew(gg, KeybindingsNew, mode))
              /\ emacs = None /\ helix = None /\ line_buffer = None
           \/ /\ \E mode \in {ModeInsert, ModeNormal(None)} :
                     helix = Some(HelixNew(gg, normal, mode))
              /\ line_buffer = Some(LineBuffer(<<"a", " ", "b">>, 1))
              /\ emacs = None /\ vi = None

\* One raw event handed to whichever driver was built.
DriverPress(event) == EmacsPress(event) \/ ViPress(event) \/ HelixPress(event)

NoPasteYet == \A i \in 1..Len(presses) : presses[i].event[1] # "Paste"

\* Key presses in any number, and at most one pasted text.
PasteInputs == PasteKeys \cup { Paste(body) : body \in PasteTexts }

NextPaste ==
    \E event \in PasteInputs :
        /\ event[1] = "Paste" => NoPasteYet
        /\ DriverPress(event)

SpecPaste == InitPaste /\ [][NextPaste]_vars

\* The text with each CR LF pair turned into one LF and each other CR into
\* one LF, read off the input from left to right.
RECURSIVE Normalized(_)
Normalized(body) ==
    IF body = <<>> THEN <<>>
    ELSE IF body[1] = "CR"
    THEN <<"LF">> \o Normalized(IF Len(body) >= 2 /\ body[2] = "LF"
                                THEN SubSeq(body, 3, Len(body)) ELSE Tail(body))
    ELSE <<body[1]>> \o Normalized(Tail(body))

\* The driver, whichever it is.
Driver == IF IsSome(emacs) THEN Unwrap(emacs)
          ELSE IF IsSome(vi) THEN Unwrap(vi) ELSE Unwrap(helix)

\* C15: for every pasted text, in every driver and driver state, the paste
\* event returns one literal-insert event whose text has no carriage return,
\* each CR LF pair having become one LF and each other CR one LF, everything
\* else unchanged and in order; the driver's mode and pending state are
\* unchanged; normalizing a normalized text changes nothing.
C15_PasteNormalized ==
    \A i \in 1..Len(presses) :
        presses[i].event[1] = "Paste" =>
            LET out == Normalized(presses[i].event[2])
            IN  /\ presses[i].ret = Edit(<<InsertString(out)>>)
                /\ \A k \in 1..Len(out) : out[k] # "CR"
                /\ After(i) = presses[i].before
                /\ ParseOtherEvent(Paste(out)) = Edit(<<InsertString(out)>>)

C15_Witness ==
    /\ IsSome(helix)
    /\ Len(presses) >= 2
    /\ presses[2].event = Paste(<<"CR", "CR", "LF">>)
    /\ presses[2].ret = Edit(<<InsertString(<<"LF", "LF">>)>>)
    /\ IsSome(presses[2].before.on_next_char)
    /\ IsSome(Driver.on_next_char)

(***************************************************************************)
(* Enter in the Vi driver (SpecVi)                                         *)
(***************************************************************************)
\* C16: in the Vi driver, pressing Enter without modifier in any sub-mode
\* and with any buffered characters returns the accept-line event and leaves
\* the driver in Insert mode, whatever the tables bind Enter to.
C16_EnterAcceptsLine ==
    IsSome(vi) =>
        \A i \in 1..Len(presses) :
            presses[i].event = Key(KeyEnter) =>
                /\ presses[i].ret = <<"Enter">>
                /\ After(i).mode = "Insert"

C16_Witness ==
    /\ IsSome(vi)
    /\ Len(presses) >= 2
    /\ presses[2].event = Key(KeyEnter)
    /\ presses[2].before.mode = "Normal"
    /\ presses[2].before.cache = <<"d">>
    /\ ~Unbound(presses[2].before.normal_keybindings, KeyEnter)
    /\ presses[2].ret = <<"Enter">>
    /\ After(2).mode = "Insert"

(***************************************************************************)
(* The cancelled-sequence fallback of Vi and Helix (SpecDrivers)           *)
(***************************************************************************)
\* C18: for every table built with add_binding and every sequence of key
\* presses, the cancelled-sequence fallback of the Vi and Helix drivers never
\* finds a buffered key bound to a nested subtree: unreachable! is never
\* executed and parse_event never panics.
C18_FallbackNeverPanics ==
    (IsSome(vi) \/ IsSome(helix)) =>
        \A i \in 1..Len(presses) : presses[i].ret # Panic

(***************************************************************************)
(* Unbound character keys in the Emacs driver (SpecEmacs)                  *)
(***************************************************************************)
\* Call i presses, with no sequence pending, a character key for which the
\* Emacs lookup (under the lower-cased character when a modifier is held)
\* finds no binding.
EmacsUnboundChar(i) ==
    /\ IsSome(emacs)
    /\ IsKeyPress(i)
    /\ PressedKey(i).key_code.kind = "Char"
    /\ presses[i].before.partial_key_sequence = None
    /\ LET kc == PressedKey(i)
       IN  FindBinding(presses[i].before.keybindings, kc.modifier,
                       IF kc.modifier = "NONE" THEN kc.key_code
                       ELSE ToLowercaseKeyCode(kc.key_code)) = None

\* C19: in Emacs mode with no pending sequence, an unbound character key c
\* returns an insert of c with no modifier, an insert of the ASCII upper-case
\* form of c with shift (a character outside ASCII unchanged), and the no-op
\* with control alone or alt alone.
C19_EmacsUnboundChar ==
    \A i \in 1..Len(presses) :
        EmacsUnboundChar(i) =>
            LET kc == PressedKey(i)
                c == kc.key_code.c
            IN  /\ kc.modifier = "NONE" => presses[i].ret = Edit(<<InsertChar(c)>>)
                /\ kc.modifier = "SHIFT" =>
                      presses[i].ret = Edit(<<InsertChar(
                          IF IsAsciiLowercase(c)
                          THEN UpperLetters[CHOOSE k \in 1..26 : LowerLetters[k] = c]
                          ELSE c)>>)
                /\ kc.modifier \in {"CONTROL", "ALT"} => presses[i].ret = EvNone

C19_Witness ==
    /\ IsSome(emacs)
    /\ Len(presses) >= 3
    /\ EmacsUnboundChar(1) /\ EmacsUnboundChar(2) /\ EmacsUnboundChar(3)
    /\ DOMAIN presses[1].before.keybindings # {}
    /\ presses[1].event = Key(Shift("g"))
    /\ presses[1].ret = Edit(<<InsertChar("G")>>)
    /\ presses[2].event = Key(Alt("x"))
    /\ presses[2].ret = EvNone
    /\ presses[3].event = Key(Shift("EACUTE"))
    /\ presses[3].ret = Edit(<<InsertChar("EACUTE")>>)

(***************************************************************************)
(* The cancelled-sequence fallback outside Insert mode (SpecDrivers)       *)
(***************************************************************************)
\* Call i is a key press made with Vi in Normal or Visual mode or with
\* Helix in Normal mode.
NonInsertPress(i) ==
    /\ IsKeyPress(i)
    /\ \/ IsSome(vi) /\ presses[i].before.mode \in {"Normal", "Visual"}
       \/ IsSome(helix) /\ presses[i].before.mode # ModeInsert

IsInsertChar(cmd) == cmd[1] = "InsertChar"

\* C20: in Vi Normal or Visual mode and in Helix Normal mode, no key press
\* returns a literal InsertChar: the plain or shift-modified character keys
\* of a failed multi-key sequence are dropped.
C20_NoInsertOutsideInsertMode ==
    \A i \in 1..Len(presses) :
        NonInsertPress(i) =>
            LET cmds == EditCommandsOf(presses[i].ret)
            IN  \A k \in 1..Len(cmds) : ~IsInsertChar(cmds[k])

(***************************************************************************)
(* Which buffered keys the cancelled-sequence fallback inserts             *)
(* (SpecDrivers)                                                           *)
(***************************************************************************)
\* The call at which the match that call i belongs to began: the latest call
\* up to i made with no sequence pending.
MatchStart(i) ==
    CHOOSE j \in 1..i :
        /\ presses[j].before.partial_key_sequence = None
        /\ \A k \in (j + 1)..i : presses[k].before.partial_key_sequence # None

\* A character key whose modifier set is empty or exactly shift.
IsTypedKey(kc) == kc.key_code.kind = "Char" /\ kc.modifier \in {"NONE", "SHIFT"}

\* The characters, lower-cased, of the typed keys among keys, in order.
TypedChars(keys) ==
    LET typed == SelectSeq(keys, IsTypedKey)
    IN  [k \in 1..Len(typed) |-> ToAsciiLowercase(typed[k].key_code.c)]

\* The characters, lower-cased, of the InsertChar commands an event carries.
InsertedChars(ev) ==
    LET ins == SelectSeq(EditCommandsOf(ev), IsInsertChar)
    IN  [k \in 1..Len(ins) |-> ToAsciiLowercase(ins[k][2])]

\* Call i is a key press that ends a match begun by an earlier key press.
EndsMatch(i) ==
    /\ IsKeyPress(i)
    /\ presses[i].ret # Panic
    /\ presses[i].before.partial_key_sequence # None
    /\ After(i).partial_key_sequence = None
    /\ AllKeys(MatchStart(i), i)

\* C21: in every driver, the literal inserts returned by the key press that
\* ends a multi-key match are, in the order pressed, characters of the
\* buffered keys whose modifier set is empty or exactly shift: either all of
\* them or none, and never the character of a key carrying control or alt.
C21_OnlyTypedKeysInserted ==
    \A i \in 1..Len(presses) :
        EndsMatch(i) =>
            InsertedChars(presses[i].ret)
                \in {<<>>, TypedChars(KeysOf(MatchStart(i), i))}

(***************************************************************************)
(* The history of the pending matcher (SpecDrivers)                        *)
(***************************************************************************)
\* The history of a pending matcher reproduces keys key for key. The Emacs
\* driver keeps characters: a character stands for a character key pressed
\* with no modifier or with shift.
HistoryReproduces(history, keys) ==
    IF IsSome(emacs)
    THEN /\ Len(history) = Len(keys)
         /\ \A k \in 1..Len(keys) :
                /\ IsTypedKey(keys[k])
                /\ ToAsciiLowercase(history[k]) = ToAsciiLowercase(keys[k].key_code.c)
    ELSE history = keys

\* C22: in every driver, whenever a multi-key match is left in progress by a
\* key press, the history of the pending matcher is the exact ordered list of
\* the key combinations consumed since the match began.
C22_HistoryIsKeysConsumed ==
    \A i \in 1..Len(presses) :
        ( /\ IsKeyPress(i)
          /\ presses[i].ret # Panic
          /\ After(i).partial_key_sequence # None
          /\ AllKeys(MatchStart(i), i) ) =>
            HistoryReproduces(Unwrap(After(i).partial_key_sequence).history,
                              KeysOf(MatchStart(i), i))

(***************************************************************************)
(* The Helix driver counting (SpecHelixCount)                              *)
(***************************************************************************)
MoveToLineStart == Edit(<<<<"MoveToLineStart", FALSE>>>>)

\* Normal tables with the digits unbound, and with 0 and 2 bound.
HelixCountNormal ==
    HelixNormalCommands \o <<Binding(<<KeyUp>>, MenuUpOrUp),
                             Binding(<<Plain("g"), Plain("g")>>, ClearScreen)>>

HelixCountNormalTables ==
    { HelixCountNormal,
      HelixCountNormal \o <<Binding(<<Plain("0")>>, MoveToLineStart),
                            Binding(<<Plain("2")>>, CtrlD)>> }

HelixCountInsert ==
    <<Binding(<<KeyEsc>>, HelixEv(NormalMode)),
      Binding(<<Plain("2")>>, CtrlD)>>

HelixCountInputs ==
    { Key(k) : k \in {Plain("0"), Plain("2"), Plain("3"), Plain("h"), Plain("t"),
                      Plain("g"), Plain("i"), KeyUp, KeyEsc} }

InitHelixCount ==
    /\ kb = KeybindingsNew /\ panicked = FALSE /\ last = None
    /\ pks = None /\ results = <<>>
    /\ emacs = None
    /\ vi = None
    /\ \E normal \in HelixCountNormalTables, mode \in {ModeInsert, ModeNormal(None)} :
            helix = Some(HelixNew(BuildKb(HelixCountInsert), BuildKb(normal), mode))
    /\ line_buffer = Some(LineBuffer(<<"a", " ", "b">>, 1))
    /\ presses = <<>>

NextHelixCount == \E event \in HelixCountInputs : HelixPress(event)

SpecHelixCount == InitHelixCount /\ [][NextHelixCount]_vars

\* Call i presses a digit key without modifier.
DigitPressed(i) ==
    /\ IsKeyPress(i)
    /\ PressedKey(i).modifier = "NONE"
    /\ PressedKey(i).key_code.kind = "Char"
    /\ IsDigit(PressedKey(i).key_code.c)

DigitOf(i) == DigitValue(PressedKey(i).key_code.c)

\* The count after a digit d is pressed on count (below the cap).
Accumulated(count, d) ==
    IF IsSome(count) THEN Some(10 * Unwrap(count) + d)
    ELSE IF d # 0 THEN Some(d) ELSE None

\* C23: in Helix Normal mode with nothing pending, a digit key the normal
\* table does not bind returns the no-op and changes only the count: a digit
\* 1-9 starts a count, a digit d on count n below the cap gives 10*n+d, and 0
\* with no count leaves it empty; a digit key bound to an event returns that
\* event and is not accumulated. In Insert mode a digit key leaves the count
\* as it was.
C23_DigitsAccumulate ==
    \A i \in 1..Len(presses) :
        /\ ( HelixNormalIdle(i) /\ DigitPressed(i) /\ RootNode(i) = None
             /\ CountOf(presses[i].before) < CountCap )
           => /\ presses[i].ret = EvNone
              /\ After(i) = [presses[i].before EXCEPT
                                !.count = Accumulated(presses[i].before.count, DigitOf(i))]
        /\ ( HelixNormalIdle(i) /\ DigitPressed(i) /\ RootBound(i) )
           => /\ presses[i].ret = RootEvent(i)
              /\ After(i).count \in {None, presses[i].before.count}
        /\ ( IsSome(helix) /\ DigitPressed(i) /\ presses[i].before.mode = ModeInsert )
           => After(i).count = presses[i].before.count

C23_Witness ==
    /\ IsSome(helix)
    /\ Len(presses) >= 3
    /\ HelixNormalIdle(1)
    /\ MapGet(presses[1].before.normal_keybindings, Plain("0")) = None
    /\ presses[1].event = Key(Plain("0"))
    /\ presses[2].event = Key(Plain("3"))
    /\ presses[3].event = Key(Plain("0"))
    /\ presses[2].before.count = None
    /\ presses[3].before.count = Some(3)
    /\ After(3).count = Some(30)
    /\ presses[3].ret = EvNone

\* Call i presses 0, with nothing pending, in Helix Normal mode on a normal
\* table that binds 0 to an event.
ZeroBoundPressed(i) ==
    /\ HelixNormalIdle(i)
    /\ presses[i].event = Key(Plain("0"))
    /\ RootBound(i)

\* C24: in Helix Normal mode with 0 bound in the normal table, pressing 0
\* with no count returns the bound event, and pressing 0 with count n appends
\* the digit (the count becomes 10*n) and does not return the bound event.
C24_ZeroAppendsToCount ==
    \A i \in 1..Len(presses) :
        ZeroBoundPressed(i) =>
            IF presses[i].before.count = None
            THEN presses[i].ret = RootEvent(i)
            ELSE /\ After(i).count = Some(10 * Unwrap(presses[i].before.count))
                 /\ presses[i].ret # RootEvent(i)

(***************************************************************************)
(* The Helix count near its cap (SpecHelixCap)                             *)
(***************************************************************************)
\* Counts that nine digit presses or fewer reach from an empty count.
HelixCapCounts ==
    { None, Some(9999999), Some(99999999), Some(CountCap), Some(Usize32MaxDiv10),
      Some(Usize32MaxDiv10 + 1), Some(999999999) }

HelixCapNormal ==
    <<Binding(<<KeyEsc>>, HelixEv(NormalMode)),
      Binding(<<Plain("i")>>, HelixEv(HelixNormal("InsertMode")))>>

HelixCapInputs ==
    { Key(k) : k \in {Plain("0"), Plain("1"), Plain("9"), Plain("i"), KeyEsc} }

\* The driver in Normal mode after the digits of a count were pressed, built
\* for a 64-bit or a 32-bit target, with or without overflow checks.
InitHelixCap ==
    /\ kb = KeybindingsNew /\ panicked = FALSE /\ last = None
    /\ pks = None /\ results = <<>>
    /\ emacs = None
    /\ vi = None
    /\ \E count \in HelixCapCounts, bits \in {32, 64}, checks \in BOOLEAN :
            helix = Some([HelixNew(BuildKb(HelixDefaultInsert), BuildKb(HelixCapNormal),
                                   ModeNormal(None))
                            EXCEPT !.count = count, !.usize_bits = bits,
                                   !.overflow_checks = checks])
    /\ line_buffer = Some(LineBuffer(<<"a", " ", "b">>, 1))
    /\ presses = <<>>

NextHelixCap == \E event \in HelixCapInputs : HelixPress(event)

SpecHelixCap == InitHelixCap /\ [][NextHelixCap]_vars

MaxCount == 999999999

\* C25: after any sequence of key presses the Helix count is empty or a
\* positive integer not above 999,999,999; once it is 100,000,000 or more a
\* further digit key leaves it unchanged; and the accumulation 10*n+d never
\* leaves the range of the machine integer.
C25_CountCapped ==
    /\ IsSome(helix) =>
          \/ Unwrap(helix).count = None
          \/ Unwrap(Unwrap(helix).count) \in 1..MaxCount
    /\ \A i \in 1..Len(presses) :
          ( HelixNormalIdle(i) /\ DigitPressed(i) /\ RootNode(i) = None ) =>
              /\ CountOf(presses[i].before) >= CountCap =>
                    /\ presses[i].ret # Panic
                    /\ After(i).count = presses[i].before.count
              /\ ~HelixCountOverflows(presses[i].before, PressedKey(i).key_code.c)

\* Call i is a key press in Helix Normal mode that completes a bound command
\* or ends a pending sequence, by a match or by a cancellation.
CompletesOrCancels(i) ==
    /\ IsSome(helix)
    /\ IsKeyPress(i)
    /\ presses[i].ret # Panic
    /\ presses[i].before.mode # ModeInsert
    /\ presses[i].before.on_next_char = None
    /\ \/ RootBound(i)
       \/ /\ presses[i].before.partial_key_sequence # None
          /\ After(i).partial_key_sequence = None

\* C26: in Helix Normal mode, after a key press that completes a bound
\* command, whatever the bound event, or that cancels a pending sequence,
\* the count is empty.
C26_CountClearedOnCompletion ==
    \A i \in 1..Len(presses) : CompletesOrCancels(i) => After(i).count = None

\* Call i is a key press other than Escape made while a single-character
\* continuation is pending.
ContinuationConsumes(i) ==
    /\ IsSome(helix)
    /\ IsKeyPress(i)
    /\ presses[i].before.on_next_char # None
    /\ PressedKey(i).key_code.kind # "Esc"

\* Call i presses, in Helix Normal mode with nothing pending, a key the
\* normal table binds to the find/till operator.
TillPressed(i) ==
    /\ HelixNormalIdle(i)
    /\ RootBound(i)
    /\ RootEvent(i) = HelixEv(HelixNormal("FindTillChar"))

IsMoveRightBefore(cmd) == cmd[1] = "MoveRightBefore"

\* C27: in Helix, a key press other than Escape made while a continuation is
\* pending changes nothing in the driver but the continuation, which is no
\* longer pending: the key is neither dispatched nor counted. A character
\* key returns the till-character motion to that character, repeated by the
\* count in force when the operator was pressed; any other key returns the
\* no-op.
C27_ContinuationConsumesKey ==
    \A i \in 1..Len(presses) :
        ContinuationConsumes(i) =>
            /\ After(i) = [presses[i].before EXCEPT !.on_next_char = None]
            /\ IF PressedKey(i).key_code.kind = "Char"
               THEN /\ presses[i].ret[1] = "Edit"
                    /\ \A k \in 1..Len(presses[i].ret[2]) :
                          \/ presses[i].ret[2][k]
                                = <<"MoveRightBefore", PressedKey(i).key_code.c, TRUE>>
                          \/ presses[i].ret[2][k] = <<"Clear">>
                    /\ (i > 1 /\ TillPressed(i - 1)) =>
                          Len(SelectSeq(presses[i].ret[2], IsMoveRightBefore))
                              = CountOf(presses[i - 1].before)
               ELSE presses[i].ret = EvNone

C27_Witness ==
    /\ IsSome(helix)
    /\ Len(presses) >= 3
    /\ presses[1].event = Key(Plain("3"))
    /\ TillPressed(2)
    /\ presses[2].before.count = Some(3)
    /\ ContinuationConsumes(3)
    /\ presses[3].event = Key(Plain("h"))
    /\ presses[3].ret = Edit(<<<<"MoveRightBefore", "h", TRUE>>,
                               <<"MoveRightBefore", "h", TRUE>>,
                               <<"MoveRightBefore", "h", TRUE>>>>)
    /\ After(3).on_next_char = None
    /\ After(3).count = None

(***************************************************************************)
(* The Vi driver typing commands in Normal mode (SpecViKeys)               *)
(***************************************************************************)
ViKeysTables ==
    { KeybindingsNew, BuildKb(<<Binding(<<Plain("a")>>, CtrlD)>>) }

ViKeysInputs ==
    { Key(k) : k \in {Plain("d"), Shift("d"), Plain("D"), Ctrl("d"), Alt("d"),
                      Plain("w"), Plain("v"), Plain("i"), Plain("a"), Shift("i"),
                      Shift("a"), Plain("s"), Shift("s"), Shift("c")} }

InitViKeys ==
    /\ kb = KeybindingsNew /\ panicked = FALSE /\ last = None
    /\ pks = None /\ results = <<>>
    /\ emacs = None
    /\ \E normal \in ViKeysTables : vi = Some(ViNew(KeybindingsNew, normal, "Normal"))
    /\ helix = None
    /\ line_buffer = None
    /\ presses = <<>>

NextViKeys == \E event \in ViKeysInputs : ViPress(event)

SpecViKeys == InitViKeys /\ [][NextViKeys]_vars

\* Call i presses, in Vi Normal or Visual mode, a character key the normal
\* table does not bind (looked up under its lower-cased character).
ViUnboundChar(i) ==
    /\ IsSome(vi)
    /\ IsKeyPress(i)
    /\ presses[i].ret # Panic
    /\ PressedKey(i).key_code.kind = "Char"
    /\ presses[i].before.mode \in {"Normal", "Visual"}
    /\ FindBinding(presses[i].before.normal_keybindings, PressedKey(i).modifier,
                   ToLowercaseKeyCode(PressedKey(i).key_code)) = None

\* The plain v that switches Normal mode to Visual mode is not pushed.
EntersVisual(i) ==
    presses[i].before.mode = "Normal" /\ presses[i].event = Key(Plain("v"))

\* The ASCII upper-case and lower-case forms of a character.
UpperOf(c) ==
    IF \E k \in 1..26 : LowerLetters[k] = c
    THEN UpperLetters[CHOOSE k \in 1..26 : LowerLetters[k] = c] ELSE c
LowerOf(c) ==
    IF \E k \in 1..26 : UpperLetters[k] = c
    THEN LowerLetters[CHOOSE k \in 1..26 : UpperLetters[k] = c] ELSE c

\* C28: in Vi Normal or Visual mode an unbound character key pressed with
\* shift enters the grammar buffer as its ASCII upper-case form and one
\* pressed with no modifier as its ASCII lower-case form: the buffer holds it
\* while the command is incomplete, shift+d returns the delete-to-end command
\* and plain d waits for a motion. A character key with any other modifier
\* is not pushed and returns the no-op.
C28_ShiftUpperCases ==
    \A i \in 1..Len(presses) :
        ViUnboundChar(i) =>
            LET kc == PressedKey(i)
                before == presses[i].before
                ch == IF kc.modifier = "SHIFT" THEN UpperOf(kc.key_code.c)
                      ELSE LowerOf(kc.key_code.c)
                pushed == Append(before.cache, ch)
            IN  IF kc.modifier \notin {"NONE", "SHIFT"}
                THEN presses[i].ret = EvNone /\ After(i) = before
                ELSE IF EntersVisual(i) THEN After(i).cache = <<>>
                ELSE /\ IF is_valid(parse(pushed)) /\ ~is_complete(parse(pushed), before.mode)
                        THEN After(i).cache = pushed /\ presses[i].ret = EvNone
                        ELSE After(i).cache = <<>>
                     /\ (before.cache = <<>> /\ before.mode = "Normal"
                            /\ kc.modifier = "SHIFT" /\ kc.key_code.c \in {"d", "D"})
                        => presses[i].ret = Multiple(<<Edit(<<<<"CutToLineEnd">>>>)>>)
                     /\ (before.cache = <<>> /\ before.mode = "Normal"
                            /\ kc.modifier = "NONE" /\ kc.key_code.c \in {"d", "D"})
                        => After(i).cache = <<"d">>

C28_Witness ==
    /\ IsSome(vi)
    /\ Len(presses) >= 3
    /\ ViUnboundChar(1) /\ ViUnboundChar(2) /\ ViUnboundChar(3)
    /\ presses[1].event = Key(Shift("d"))
    /\ presses[1].ret = Multiple(<<Edit(<<<<"CutToLineEnd">>>>)>>)
    /\ presses[2].event = Key(Ctrl("d"))
    /\ presses[2].ret = EvNone
    /\ presses[3].event = Key(Plain("D"))
    /\ After(3).cache = <<"d">>

\* The keys of the Normal-mode commands that change the sub-mode to Insert:
\* i, a, I, A, s, S and C.
InsertCommandKeys ==
    { Plain("i"), Plain("a"), Shift("i"), Shift("a"), Plain("s"), Shift("s"),
      Shift("c") }

\* Call i presses, in Vi Normal mode with an empty buffer, the unbound key
\* of one of these commands.
InsertCommandPressed(i) ==
    /\ ViUnboundChar(i)
    /\ presses[i].before.mode = "Normal"
    /\ presses[i].before.cache = <<>>
    /\ PressedKey(i) \in InsertCommandKeys

\* The event is a repaint or a composite that holds one.
IncludesRepaint(ev) ==
    \/ ev = Repaint
    \/ /\ ev[1] = "Multiple"
       /\ \E k \in 1..Len(ev[2]) : ev[2][k] = Repaint

HelixCaseNormal ==
    <<Binding(<<KeyEsc>>, HelixEv(NormalMode)),
      Binding(<<Plain("i")>>, HelixEv(HelixNormal("InsertMode"))),
      Binding(<<Ctrl("g")>>, CtrlD),
      Binding(<<Ctrl("x"), Ctrl("g")>>, HistoryHintComplete),
      Binding(<<Plain("g"), Alt("x")>>, MenuUpOrUp)>>

HelixCaseInsert ==
    <<Binding(<<KeyEsc>>, HelixEv(NormalMode)),
      Binding(<<Alt("x"), Alt("g")>>, CtrlD)>>

HelixCaseInputs ==
    { Key(k) : k \in {Ctrl("g"), Ctrl("G"), Ctrl("x"), Ctrl("X"), Alt("x"),
                      Alt("X"), Alt("G"), Plain("g"), Plain("i"), KeyEsc} }

InitHelixCase ==
    /\ kb = KeybindingsNew /\ panicked = FALSE /\ last = None
    /\ pks = None /\ results = <<>>
    /\ emacs = None
    /\ vi = None
    /\ \E mode \in {ModeInsert, ModeNormal(None)} :
            helix = Some(HelixNew(BuildKb(HelixCaseInsert), BuildKb(HelixCaseNormal),
                                  mode))
    /\ line_buffer = Some(LineBuffer(<<"a", "b">>, 1))
    /\ presses = <<>>

NextHelixCase == \E event \in HelixCaseInputs : HelixPress(event)

SpecHelixCase == InitHelixCase /\ [][NextHelixCase]_vars

\* The key combination with its letter lower-cased.
LowerCased(kc) == [kc EXCEPT !.key_code = ToLowercaseKeyCode(kc.key_code)]

\* Press i carries control or alt and an upper-case letter, and goes to the
\* table lookup (no continuation is waiting for it).
UpperCasePressed(i) ==
    /\ IsKeyPress(i)
    /\ presses[i].ret # Panic
    /\ PressedKey(i).modifier \in {"CONTROL", "ALT"}
    /\ PressedKey(i).key_code.kind = "Char"
    /\ IsAsciiUppercase(PressedKey(i).key_code.c)
    /\ presses[i].before.on_next_char = None

\* The lower-cased key of press i is registered where the lookup happens: at
\* the root of the active table, or in the subtree the match has reached.
RegisteredLowerCase(i) ==
    LET before == presses[i].before
        low == LowerCased(PressedKey(i))
    IN  IF before.partial_key_sequence = None
        THEN FindBinding(HelixActiveBindings(before), low.modifier, low.key_code) # None
        ELSE low \in DOMAIN Unwrap(before.partial_key_sequence).sequence

\* Press i did what the press of the lower-cased key does in the same state.
ActsAsLowerCase(i) ==
    LET low == HelixParseEvent(presses[i].before, Unwrap(line_buffer),
                               Key(LowerCased(PressedKey(i))))
    IN  /\ presses[i].ret = low.ret
        /\ After(i).mode = low.self.mode
        /\ (After(i).partial_key_sequence = None)
               <=> (low.self.partial_key_sequence = None)

\* C29: a control or alt key press reported with an upper-case letter is
\* looked up by its lower-cased letter, at the table root and at every later
\* key of a multi-key sequence, so a binding registered with lower-case
\* letters is matched at every position of its path.
C29_LowerCasedAtEveryPosition ==
    \A i \in 1..Len(presses) :
        (UpperCasePressed(i) /\ RegisteredLowerCase(i)) => ActsAsLowerCase(i)

\* The same at the table root only.
LowerCasedAtRoot ==
    \A i \in 1..Len(presses) :
        (/\ UpperCasePressed(i)
         /\ RegisteredLowerCase(i)
         /\ presses[i].before.partial_key_sequence = None) => ActsAsLowerCase(i)

(***************************************************************************)
(* Vi: the last-search slot under delete and change (SpecViSearch)         *)
(***************************************************************************)
ViSearchInputs ==
    { Key(k) : k \in {Plain("d"), Plain("c"), Plain("f"), Shift("f"), Plain("t"),
                      Shift("t"), Plain(";"), Plain(","), Plain("x"), Plain("2"),
                      KeyEsc} }

\* The values of the last-search slot the driver starts with: empty as built,
\* or as an earlier find/till left it.
ViSearchSlots == { None, Some(<<"ToRight", "x">>), Some(<<"TillLeft", "y">>) }

InitViSearch ==
    /\ kb = KeybindingsNew /\ panicked = FALSE /\ last = None
    /\ pks = None /\ results = <<>>
    /\ emacs = None
    /\ \E slot \in ViSearchSlots :
            vi = Some([ViNew(KeybindingsNew, KeybindingsNew, "Normal")
                          EXCEPT !.last_char_search = slot])
    /\ helix = None
    /\ line_buffer = None
    /\ presses = <<>>

NextViSearch == \E event \in ViSearchInputs : ViPress(event)

SpecViSearch == InitViSearch /\ [][NextViSearch]_vars

\* The character press i pushes into the grammar buffer.
PushedChar(i) ==
    IF PressedKey(i).modifier = "SHIFT"
    THEN UpperOf(LowerOf(PressedKey(i).key_code.c))
    ELSE LowerOf(PressedKey(i).key_code.c)

\* The buffer without the digits of its counts.
CommandKeys(cache) == SelectSeq(cache, LAMBDA c : ~IsDigit(c))

\* Press i is a typed character in Normal mode that reaches the grammar.
GrammarKey(i) ==
    /\ ViUnboundChar(i)
    /\ presses[i].before.mode = "Normal"
    /\ PressedKey(i).modifier \in {"NONE", "SHIFT"}

\* Press i gives the target of a find/till motion under delete or change.
FindTargetPressed(i) ==
    LET keys == CommandKeys(presses[i].before.cache)
    IN  /\ GrammarKey(i)
        /\ Len(keys) = 2
        /\ keys[1] \in {"d", "c"}
        /\ keys[2] \in DOMAIN CharMotions
        /\ presses[i].before.cache[Len(presses[i].before.cache)] = keys[2]

\* Direction and inclusivity of the four find/till keys.
SearchKind == [f |-> "ToRight", t |-> "TillRight", F |-> "ToLeft", T |-> "TillLeft"]

\* Press i is the replay or the reverse-replay motion, alone or under delete
\* or change.
ReplayPressed(i) ==
    /\ GrammarKey(i)
    /\ PushedChar(i) \in {";", ","}
    /\ Len(CommandKeys(presses[i].before.cache)) <= 1
    /\ CommandKeys(presses[i].before.cache) \in {<<>>, <<"d">>, <<"c">>}

\* C31: after a delete or change with a find/till motion and target c the
\* last-search slot holds that direction, that inclusivity and c; the replay
\* and reverse-replay motions leave the slot unchanged; a delete or change
\* with a replay motion on an empty slot emits no edit command.
C31_LastSearchSlot ==
    \A i \in 1..Len(presses) :
        /\ FindTargetPressed(i) =>
              After(i).last_char_search =
                  Some(<<SearchKind[CommandKeys(presses[i].before.cache)[2]],
                         PushedChar(i)>>)
        /\ ReplayPressed(i) =>
              /\ After(i).last_char_search = presses[i].before.last_char_search
              /\ (/\ CommandKeys(presses[i].before.cache) # <<>>
                  /\ presses[i].before.last_char_search = None)
                     => EditCommandsOf(presses[i].ret) = <<>>

\* A change with the till-left motion and target x has replaced the slot.
C31_Witness ==
    \E i \in 1..Len(presses) :
        /\ FindTargetPressed(i)
        /\ presses[i].before.cache = <<"c", "T">>
        /\ After(i).last_char_search = Some(<<"TillLeft", "x">>)
        /\ presses[i].before.last_char_search # After(i).last_char_search

\* A delete with the replay motion on an empty slot was pressed.
ReplayOnEmptySlot ==
    \E i \in 1..Len(presses) :
        /\ ReplayPressed(i)
        /\ presses[i].before.cache = <<"d">>
        /\ presses[i].before.last_char_search = None

(***************************************************************************)
(* Vi: the repeat command (SpecViRepeat)                                   *)
(***************************************************************************)
ViRepeatInputs ==
    { Key(k) : k \in {Plain("."), Plain("x"), Plain("w"), Plain("d"), Plain("u"),
                      Plain("f"), Plain("i"), KeyEsc, KeyEnter} }

InitViRepeat ==
    /\ kb = KeybindingsNew /\ panicked = FALSE /\ last = None
    /\ pks = None /\ results = <<>>
    /\ emacs = None
    /\ \E mode \in {"Normal", "Insert"} :
            vi = Some(ViNew(KeybindingsNew, KeybindingsNew, mode))
    /\ helix = None
    /\ line_buffer = None
    /\ presses = <<>>

NextViRepeat == \E event \in ViRepeatInputs : ViPress(event)

SpecViRepeat == InitViRepeat /\ [][NextViRepeat]_vars

\* The events of an event in order, nested composites opened.
RECURSIVE Leaves(_)
Leaves(ev) ==
    LET RECURSIVE All(_)
        All(evs) == IF evs = <<>> THEN <<>> ELSE Leaves(evs[1]) \o All(Tail(evs))
    IN  IF ev[1] = "Multiple" THEN All(ev[2]) ELSE <<ev>>

\* The calls before call i that returned an event other than the no-op.
EmittedBefore(i) == { j \in 1..(i - 1) : presses[j].ret # EvNone }

\* The event most recently returned before call i.
LastEmitted(i) ==
    presses[CHOOSE j \in EmittedBefore(i) : \A k \in EmittedBefore(i) : k <= j].ret

\* Press i is the plain `.` in Normal mode on an empty character buffer.
DotPressed(i) ==
    /\ GrammarKey(i)
    /\ presses[i].event = Key(Plain("."))
    /\ presses[i].before.cache = <<>>

\* `.` leaves the sub-mode and the last-search slot alone, and returns the
\* no-op when the driver has returned no event so far.
DotFrame ==
    \A i \in 1..Len(presses) :
        DotPressed(i) =>
            /\ After(i).mode = presses[i].before.mode
            /\ After(i).last_char_search = presses[i].before.last_char_search
            /\ EmittedBefore(i) = {} => presses[i].ret = EvNone

\* C32: in Vi Normal mode `.` returns the event most recently returned by the
\* driver, and the no-op when none was returned before; it leaves the
\* sub-mode and the last-search slot unchanged.
C32_DotReplaysLastEvent ==
    \A i \in 1..Len(presses) :
        DotPressed(i) =>
            /\ After(i).mode = presses[i].before.mode
            /\ After(i).last_char_search = presses[i].before.last_char_search
            /\ IF EmittedBefore(i) = {} THEN presses[i].ret = EvNone
               ELSE Leaves(presses[i].ret) = Leaves(LastEmitted(i))

\* Press i is a typed character of Normal or Visual mode that is pushed into
\* the character buffer: no binding takes it and it is not the v that enters
\* Visual mode.
PushedIntoCache(i) ==
    /\ ViUnboundChar(i)
    /\ presses[i].before.partial_key_sequence = None
    /\ PressedKey(i).modifier \in {"NONE", "SHIFT"}
    /\ ~EntersVisual(i)

\* The parse of the buffer with the character of press i pushed has ended:
\* it failed, or it is complete.
ParseEnded(i) ==
    LET res == parse(Append(presses[i].before.cache, PushedChar(i)))
    IN  /\ PushedIntoCache(i)
        /\ ~is_valid(res) \/ is_complete(res, presses[i].before.mode)

\* Press i is Escape or Enter without modifier.
EscOrEnter(i) ==
    IsKeyPress(i) /\ presses[i].ret # Panic /\ PressedKey(i) \in {KeyEsc, KeyEnter}

\* The buffer is empty after a parse that ended, after Escape and after a
\* change of sub-mode made by a command or by v.
CacheClearedExceptEnter ==
    \A i \in 1..Len(presses) :
        (IsSome(vi) /\ IsKeyPress(i) /\ presses[i].ret # Panic
         /\ (ParseEnded(i) \/ PressedKey(i) = KeyEsc
             \/ (After(i).mode # presses[i].before.mode /\ PressedKey(i) # KeyEnter)))
            => After(i).cache = <<>>

\* C33: the Vi character buffer is empty after every key press that ends in
\* a successful parse, a failed parse or a change of sub-mode (Escape, Enter,
\* v entering Visual, a command entering Insert); in particular it is empty
\* whenever the driver is in Insert mode.
C33_CacheCleared ==
    \A i \in 1..Len(presses) :
        (IsSome(vi) /\ presses[i].ret # Panic) =>
            /\ (ParseEnded(i) \/ EscOrEnter(i)
                \/ After(i).mode # presses[i].before.mode) => After(i).cache = <<>>
            /\ After(i).mode = "Insert" => After(i).cache = <<>>

(***************************************************************************)
(* Helix: mode transitions (SpecHelixMode)                                 *)
(***************************************************************************)
\* A normal table in which a three-key path passes through keys that are
\* also bound on their own, to a mode switch and to the till-char command.
HelixModeNormal ==
    <<Binding(<<KeyEsc>>, HelixEv(NormalMode)),
      Binding(<<Plain("i")>>, HelixEv(HelixNormal("InsertMode"))),
      Binding(<<Plain("v")>>, HelixEv(HelixNormal("SelectMode"))),
      Binding(<<Plain("t")>>, HelixEv(HelixNormal("FindTillChar"))),
      Binding(<<KeyUp>>, HelixEv(HelixNormal("SelectMode"))),
      Binding(<<Ctrl("g")>>, HelixEv(HelixNormal("FindTillChar"))),
      Binding(<<Plain("g"), KeyUp, Plain("g")>>, CtrlD),
      Binding(<<Plain("g"), Ctrl("g"), Plain("g")>>, CtrlD)>>

HelixModeInputs ==
    { Key(k) : k \in {Plain("g"), Plain("i"), Plain("v"), Plain("t"), Plain("2"),
                      Plain("x"), Ctrl("g"), KeyUp, KeyEsc} }

InitHelixMode ==
    /\ kb = KeybindingsNew /\ panicked = FALSE /\ last = None
    /\ pks = None /\ results = <<>>
    /\ emacs = None
    /\ vi = None
    /\ \E mode \in {ModeInsert, ModeNormal(None)} :
            helix = Some(HelixNew(BuildKb(HelixDefaultInsert), BuildKb(HelixModeNormal),
                                  mode))
    /\ line_buffer = Some(LineBuffer(<<"a", "b">>, 1))
    /\ presses = <<>>

NextHelixMode == \E event \in HelixModeInputs : HelixPress(event)

SpecHelixMode == InitHelixMode /\ [][NextHelixMode]_vars

\* Key press i changed the mode or the minor mode.
ModeChanged(i) ==
    /\ IsKeyPress(i)
    /\ presses[i].ret # Panic
    /\ After(i).mode # presses[i].before.mode

\* Key press i cancelled a multi-key match, so the keys of the match were
\* replayed, and the pressed key, replayed last, is bound to the till-char
\* command.
TillCharReplayedLast(i) ==
    /\ presses[i].before.partial_key_sequence # None
    /\ After(i).partial_key_sequence = None
    /\ FindBinding(presses[i].before.normal_keybindings, PressedKey(i).modifier,
                   ToLowercaseKeyCode(PressedKey(i).key_code))
           = Some(<<"Event", HelixEv(HelixNormal("FindTillChar"))>>)

InsertUnboundChar(i) ==
    /\ IsSome(vi)
    /\ IsKeyPress(i)
    /\ presses[i].ret # Panic
    /\ PressedKey(i).key_code.kind = "Char"
    /\ presses[i].before.mode = "Insert"
    /\ presses[i].before.partial_key_sequence = None
    /\ FindBinding(presses[i].before.insert_keybindings, PressedKey(i).modifier,
                   ToLowercaseKeyCode(PressedKey(i).key_code)) = None

\* C35: in Vi Insert mode a character key that no binding intercepts is
\* inserted as a literal character only when its modifier set is empty,
\* shift, control+alt or control+alt+shift; with any other modifier set the
\* key press returns the no-op event.
C35_InsertOnlyTypingModifiers ==
    \A i \in 1..Len(presses) :
        InsertUnboundChar(i) =>
            presses[i].ret =
                IF TypingModifier(PressedKey(i).modifier)
                THEN Edit(<<InsertChar(PressedKey(i).key_code.c)>>)
                ELSE EvNone

\* The Helix Normal-mode command the key of press i is bound to when it is
\* looked up at the root of the normal table with nothing pending.
HelixCommandOf(i) ==
    LET found == FindBinding(presses[i].before.normal_keybindings,
                             PressedKey(i).modifier,
                             ToLowercaseKeyCode(PressedKey(i).key_code))
    IN  IF /\ IsSome(helix) /\ IsKeyPress(i)
           /\ presses[i].before.mode # ModeInsert
           /\ presses[i].before.partial_key_sequence = None
           /\ presses[i].before.on_next_char = None
           /\ PressedKey(i) # KeyEsc
           /\ found # None
           /\ Unwrap(found)[1] = "Event"
           /\ Unwrap(found)[2][1] = "Helix"
           /\ Unwrap(found)[2][2] # NormalMode
        THEN Some(Unwrap(found)[2][2][2])
        ELSE None

ForwardWordCommands ==
    { "MoveNextWordStart", "MoveNextWordEnd", "MoveNextLongWordStart",
      "MoveNextLongWordEnd" }

ForwardWordPressed(i) ==
    /\ HelixCommandOf(i) # None
    /\ Unwrap(HelixCommandOf(i)) \in ForwardWordCommands

WordMotionEdits ==
    { "MoveWordRightBeforeStart", "MoveWordRightEnd", "MoveBigWordRightBeforeStart",
      "MoveBigWordRightEnd" }

\* The edit list of press i holds the extra single-character step.
Stepped(i) ==
    \E k \in 1..Len(presses[i].ret[2]) : presses[i].ret[2][k][1] = "MoveRight"

\* The edit list of press i holds as many word motions as its count and
\* ends with one.
WordMotionsRepeated(i) ==
    LET cmds == presses[i].ret[2]
    IN  /\ presses[i].ret[1] = "Edit"
        /\ Len(SelectSeq(cmds, LAMBDA c : c[1] \in WordMotionEdits))
               = CountOf(presses[i].before)
        /\ cmds[Len(cmds)][1] \in WordMotionEdits

\* The forward word motions emit the count's number of word motions, the
\* last command being one.
ForwardWordCounts ==
    \A i \in 1..Len(presses) : ForwardWordPressed(i) => WordMotionsRepeated(i)

\* C36: a forward word-start or word-end motion with count n emits exactly n
\* word-motion commands and ends with one, and the extra single-character
\* step depends only on the graphemes at and after the cursor: two presses
\* of the same motion on the same buffer and cursor agree on it, whatever
\* their counts.
C36_StepDecidedByGraphemes ==
    \A i \in 1..Len(presses) :
        ForwardWordPressed(i) =>
            /\ WordMotionsRepeated(i)
            /\ \A j \in 1..Len(presses) :
                   (ForwardWordPressed(j) /\ HelixCommandOf(j) = HelixCommandOf(i))
                       => (Stepped(i) <=> Stepped(j))

(***************************************************************************)
(* The built-in tables and their try-alternatives bindings                 *)
(* (SpecEmacsDefault)                                                      *)
(***************************************************************************)
MoveWordRightEdit == Edit(<<<<"MoveWordRight", FALSE>>>>)
MoveToLineEndEdit == Edit(<<<<"MoveToLineEnd", FALSE>>>>)

\* A plausible slip: the plain movement is listed first.
RightAlternativesPlainFirst == <<<<"Right">>, <<"MenuRight">>, HistoryHintComplete>>

\* The alternatives bound to the Right arrow.
RightAlternatives == <<HistoryHintComplete, <<"MenuRight">>, <<"Right">>>>

\* keybindings.rs add_common_navigation_bindings, in the order of its
\* add_binding calls.
add_common_navigation_bindings ==
    <<Binding(<<KeyUp>>, UntilFound(<<<<"MenuUp">>, <<"Up">>>>)),
      Binding(<<KeyCombination("NONE", Code("Down"))>>,
              UntilFound(<<<<"MenuDown">>, <<"Down">>>>)),
      Binding(<<KeyCombination("NONE", Code("Left"))>>,
              UntilFound(<<<<"MenuLeft">>, <<"Left">>>>)),
      Binding(<<KeyCombination("NONE", Code("Right"))>>, UntilFound(RightAlternatives)),
      Binding(<<KeyCombination("CONTROL", Code("Left"))>>,
              Edit(<<<<"MoveWordLeft", FALSE>>>>)),
      Binding(<<KeyCombination("CONTROL", Code("Right"))>>,
              UntilFound(<<<<"HistoryHintWordComplete">>, MoveWordRightEdit>>)),
      Binding(<<KeyCombination("NONE", Code("Home"))>>,
              Edit(<<<<"MoveToLineStart", FALSE>>>>)),
      Binding(<<Ctrl("a")>>, Edit(<<<<"MoveToLineStart", FALSE>>>>)),
      Binding(<<KeyCombination("NONE", Code("End"))>>,
              UntilFound(<<HistoryHintComplete, MoveToLineEndEdit>>)),
      Binding(<<Ctrl("e")>>, UntilFound(<<HistoryHintComplete, MoveToLineEndEdit>>)),
      Binding(<<KeyCombination("CONTROL", Code("Home"))>>,
              Edit(<<<<"MoveToStart", FALSE>>>>)),
      Binding(<<KeyCombination("CONTROL", Code("End"))>>,
              Edit(<<<<"MoveToEnd", FALSE>>>>)),
      Binding(<<Ctrl("p")>>, UntilFound(<<<<"MenuUp">>, <<"Up">>>>)),
      Binding(<<Ctrl("n")>>, UntilFound(<<<<"MenuDown">>, <<"Down">>>>))>>

\* emacs.rs default_emacs_keybindings: the navigation bindings and the moves
\* it adds itself (the control, edit and selection groups bind no
\* try-alternatives event).
default_emacs_keybindings ==
    add_common_navigation_bindings \o
    <<Binding(<<KeyEnter>>, <<"Enter">>),
      Binding(<<Ctrl("b")>>, UntilFound(<<<<"MenuLeft">>, <<"Left">>>>)),
      Binding(<<Ctrl("f")>>,
              UntilFound(<<HistoryHintComplete, <<"MenuRight">>, <<"Right">>>>)),
      Binding(<<KeyCombination("ALT", Code("Left"))>>,
              Edit(<<<<"MoveWordLeft", FALSE>>>>)),
      Binding(<<KeyCombination("ALT", Code("Right"))>>,
              UntilFound(<<<<"HistoryHintWordComplete">>, MoveWordRightEdit>>)),
      Binding(<<Alt("b")>>, Edit(<<<<"MoveWordLeft", FALSE>>>>)),
      Binding(<<Alt("f")>>,
              UntilFound(<<<<"HistoryHintWordComplete">>, MoveWordRightEdit>>))>>

\* Every key bound to a try-alternatives event, and a few others.
EmacsDefaultInputs ==
    { Key(default_emacs_keybindings[k].start) :
          k \in { n \in 1..Len(default_emacs_keybindings) :
                      default_emacs_keybindings[n].command[1] = "UntilFound" } }
      \cup { Key(KeyEnter), Key(Plain("f")), Key(Ctrl("F")) }

InitEmacsDefault ==
    /\ kb = KeybindingsNew /\ panicked = FALSE /\ last = None
    /\ pks = None /\ results = <<>>
    /\ emacs = Some(EmacsNew(BuildKb(default_emacs_keybindings)))
    /\ vi = None
    /\ helix = None
    /\ line_buffer = None
    /\ presses = <<>>

NextEmacsDefault == \E event \in EmacsDefaultInputs : EmacsPress(event)

SpecEmacsDefault == InitEmacsDefault /\ [][NextEmacsDefault]_vars

\* Where an alternative stands in the contract: hint completion first, menu
\* navigation next, the plain movement or edit last.
AlternativeRank(ev) ==
    IF ev[1] \in {"HistoryHintComplete", "HistoryHintWordComplete"} THEN 0
    ELSE IF ev[1] \in {"MenuUp", "MenuDown", "MenuLeft", "MenuRight"} THEN 1
    ELSE 2

\* Hint completion and menu navigation come before the one plain movement
\* or edit, which is last.
PlainLast(alts) ==
    /\ alts # <<>>
    /\ AlternativeRank(alts[Len(alts)]) = 2
    /\ \A k \in 1..(Len(alts) - 1) :
           /\ AlternativeRank(alts[k]) < 2
           /\ AlternativeRank(alts[k]) <= AlternativeRank(alts[k + 1])

\* The try-alternatives event press i finds bound to its key at the root of
\* the Emacs table, if any.
BoundComposite(i) ==
    LET found == FindBinding(presses[i].before.keybindings, PressedKey(i).modifier,
                             ToLowercaseKeyCode(PressedKey(i).key_code))
    IN  IF /\ IsSome(emacs) /\ IsKeyPress(i)
           /\ presses[i].before.partial_key_sequence = None
           /\ found # None
           /\ Unwrap(found)[1] = "Event"
           /\ Unwrap(found)[2][1] = "UntilFound"
        THEN Some(Unwrap(found)[2])
        ELSE None

\* C37: every try-alternatives binding of the built-in tables lists hint
\* completion and menu navigation before the plain movement or edit, and a
\* key press bound to such a composite returns the alternatives in exactly
\* the authored order.
C37_AlternativesInAuthoredOrder ==
    /\ IsSome(emacs) =>
          \A kc \in DOMAIN Unwrap(emacs).keybindings :
              LET node == Unwrap(emacs).keybindings[kc]
              IN  (node[1] = "Event" /\ node[2][1] = "UntilFound")
                      => PlainLast(node[2][2])
    /\ \A i \in 1..Len(presses) :
           BoundComposite(i) # None =>
               /\ presses[i].ret = Unwrap(BoundComposite(i))
               /\ PlainLast(presses[i].ret[2])

\* The Right arrow returned hint completion, menu-right, right, and the Up
\* arrow menu-up, up.
C37_Witness ==
    \E i, j \in 1..Len(presses) :
        /\ presses[i].event = Key(KeyCombination("NONE", Code("Right")))
        /\ presses[i].ret = UntilFound(<<HistoryHintComplete, <<"MenuRight">>, <<"Right">>>>)
        /\ presses[j].event = Key(KeyUp)
        /\ presses[j].ret = MenuUpOrUp

\* The keybinding tables a driver in state st holds.
TablesOf(st) ==
    IF IsSome(emacs) THEN <<st.keybindings>>
    ELSE <<st.insert_keybindings, st.normal_keybindings>>

\* The driver as it was constructed (before the first parse_event call).
Constructed == IF presses = <<>> THEN After(0) ELSE presses[1].before

\* Every key path of length up to 3 over the pressed keys resolves in table t
\* as it does in table u.
ResolvesAlike(t, u) ==
    \A a, b, c \in { presses[k].event[2] : k \in { n \in 1..Len(presses) : IsKeyPress(n) } } :
        /\ Walk(t, <<a>>) = Walk(u, <<a>>)
        /\ Walk(t, <<a, b>>) = Walk(u, <<a, b>>)
        /\ Walk(t, <<a, b, c>>) = Walk(u, <<a, b, c>>)

\* C38: parse_event never changes the keybinding tables a driver was built
\* with: after any sequence of key presses, completed and cancelled
\* multi-key sequences included, the tables are the constructed ones and
\* every key path resolves as it did at construction.
C38_TablesUnchanged ==
    \A i \in 0..Len(presses) : TablesOf(After(i)) = TablesOf(Constructed)

\* The same, path by path.
PathsResolveAlike ==
    \A i \in 0..Len(presses) :
        \A n \in 1..Len(TablesOf(Constructed)) :
            ResolvesAlike(TablesOf(After(i))[n], TablesOf(Constructed)[n])

\* A two-key binding was matched, and the next press of its first key put the
\* same subtree pending again.
C38_Witness ==
    /\ Len(presses) = 3
    /\ IsSome(emacs)
    /\ presses[1].event = presses[2].event
    /\ presses[2].event = presses[3].event
    /\ presses[1].before.partial_key_sequence = None
    /\ presses[2].before.partial_key_sequence # None
    /\ presses[2].ret = ClearScreen
    /\ presses[3].before.partial_key_sequence = None
    /\ After(3).partial_key_sequence = presses[2].before.partial_key_sequence

BackwardWordCommands == { "MovePrevWordStart", "MovePrevLongWordStart" }

\* Press i runs a backward word motion.
BackwardWordPressed(i) ==
    /\ HelixCommandOf(i) # None
    /\ Unwrap(HelixCommandOf(i)) \in BackwardWordCommands

\* The backward word motions return an edit event on a buffer that is not
\* empty, wherever the insertion point is.
BackwardWordOnText ==
    \A i \in 1..Len(presses) :
        (BackwardWordPressed(i) /\ Unwrap(line_buffer).buffer # <<>>)
            => presses[i].ret[1] = "Edit"

\* C39: for every line buffer, the empty one included, and every insertion
\* point, the Helix backward word motions return an edit event: the
\* look-behind query neither underflows length - 1 nor slices out of range.
C39_BackwardWordReturnsEdit ==
    \A i \in 1..Len(presses) :
        BackwardWordPressed(i) =>
            /\ presses[i].ret # Panic
            /\ presses[i].ret[1] = "Edit"

(***************************************************************************)
(* Helix: the Select minor mode (SpecHelixSelect)                          *)
(***************************************************************************)
HelixSelectNormal ==
    <<Binding(<<KeyEsc>>, HelixEv(NormalMode)),
      Binding(<<Plain("i")>>, HelixEv(HelixNormal("InsertMode"))),
      Binding(<<Plain("v")>>, HelixEv(HelixNormal("SelectMode"))),
      Binding(<<Plain("h")>>, HelixEv(HelixNormal("MoveCharLeft"))),
      Binding(<<Plain("l")>>, HelixEv(HelixNormal("MoveCharRight")))>>

\* An insert table that binds keys to Normal-mode commands.
HelixSelectInsert ==
    <<Binding(<<KeyEsc>>, HelixEv(NormalMode)),
      Binding(<<Plain("v")>>, HelixEv(HelixNormal("SelectMode"))),
      Binding(<<Plain("h")>>, HelixEv(HelixNormal("MoveCharLeft"))),
      Binding(<<Plain("i")>>, HelixEv(HelixNormal("InsertMode")))>>

HelixSelectInputs ==
    { Key(k) : k \in {Plain("v"), Plain("h"), Plain("l"), Plain("i"), Plain("2"),
                      KeyEsc} }

InitHelixSelect ==
    /\ kb = KeybindingsNew /\ panicked = FALSE /\ last = None
    /\ pks = None /\ results = <<>>
    /\ emacs = None
    /\ vi = None
    /\ \E mode \in {ModeInsert, ModeNormal(None)} :
            helix = Some(HelixNew(BuildKb(HelixSelectInsert), BuildKb(HelixSelectNormal),
                                  mode))
    /\ line_buffer = Some(LineBuffer(<<"a", "b">>, 1))
    /\ presses = <<>>

NextHelixSelect == \E event \in HelixSelectInputs : HelixPress(event)

SpecHelixSelect == InitHelixSelect /\ [][NextHelixSelect]_vars

\* Select is the active minor mode in driver state st.
SelectOn(st) == st.mode = ModeNormal(Some("Select"))

\* The Helix Normal-mode command the key of press i is bound to in the insert
\* table, when the driver is in Insert mode with nothing pending.
InsertTableCommandOf(i) ==
    LET found == FindBinding(presses[i].before.insert_keybindings,
                             PressedKey(i).modifier,
                             ToLowercaseKeyCode(PressedKey(i).key_code))
    IN  IF /\ IsSome(helix) /\ IsKeyPress(i)
           /\ presses[i].before.mode = ModeInsert
           /\ presses[i].before.partial_key_sequence = None
           /\ presses[i].before.on_next_char = None
           /\ PressedKey(i) # KeyEsc
           /\ found # None
           /\ Unwrap(found)[1] = "Event"
           /\ Unwrap(found)[2][1] = "Helix"
           /\ Unwrap(found)[2][2] # NormalMode
        THEN Some(Unwrap(found)[2][2][2])
        ELSE None

\* The edit operation of the two character motions.
CharMotionEdit == [MoveCharLeft |-> "MoveLeft", MoveCharRight |-> "MoveRight"]

\* C40: in Helix Normal mode the char-left and char-right operations carry
\* select = true exactly when Select is the minor mode at that key press;
\* the select-mode key switches Select on when off and off when on, so two
\* presses restore the minor mode; a Normal-mode command received in Insert
\* mode returns the no-op and leaves the mode unchanged.
C40_SelectFlagAndToggle ==
    \A i \in 1..Len(presses) :
        /\ (HelixCommandOf(i) # None /\ Unwrap(HelixCommandOf(i)) \in DOMAIN CharMotionEdit)
              => presses[i].ret =
                     Multiple(Repeat(<<Edit(<<<<CharMotionEdit[Unwrap(HelixCommandOf(i))],
                                                SelectOn(presses[i].before)>>>>)>>,
                                     CountOf(presses[i].before)))
        /\ HelixCommandOf(i) = Some("SelectMode")
              => /\ presses[i].ret = EvNone
                 /\ After(i).mode = IF SelectOn(presses[i].before)
                                    THEN ModeNormal(None)
                                    ELSE ModeNormal(Some("Select"))
                 /\ (i > 1 /\ HelixCommandOf(i - 1) = Some("SelectMode"))
                        => After(i).mode = presses[i - 1].before.mode
        /\ InsertTableCommandOf(i) # None
              => /\ presses[i].ret = EvNone
                 /\ After(i).mode = ModeInsert

\* Select was switched on, char-left was pressed with select = true, and the
\* select-mode key switched Select off again.
C40_Witness ==
    /\ Len(presses) = 3
    /\ HelixCommandOf(1) = Some("SelectMode")
    /\ ~SelectOn(presses[1].before)
    /\ HelixCommandOf(2) = Some("MoveCharLeft")
    /\ presses[2].ret = Multiple(<<Edit(<<<<"MoveLeft", TRUE>>>>)>>)
    /\ HelixCommandOf(3) = Some("SelectMode")
    /\ After(3).mode = ModeNormal(None)

\* A Normal-mode command bound in the insert table was pressed in Insert
\* mode.
NormalCommandInInsert ==
    \E i \in 1..Len(presses) : InsertTableCommandOf(i) # None

====
